---- MODULE Spec2Model ----
(***************************************************************************)
(* A model of the numeric / statistical and geospatial helpers of          *)
(* utils.js (src/sorting.js, src/geojson.js) and of its safeObject         *)
(* (src/objects.js).                                                       *)
(*                                                                         *)
(* The helpers are free-standing JavaScript functions.  A state of the     *)
(* model is the caller's view of one call: the arrays the caller owns      *)
(* (arr, arr2: a function may mutate them), the function last called, the  *)
(* arguments it was given and what it returned or threw, and the           *)
(* properties of the global object that the functions assign (global),    *)
(* and the object that safeObject returned to the caller (myObj).          *)
(*                                                                         *)
(* JavaScript numbers are modelled as exact rationals n/d in lowest terms, *)
(* with NaN, +Infinity, -Infinity and undefined as values of their own; the *)
(* rounding of IEEE doubles and the sign of zero are not modelled.  A      *)
(* thrown exception is a value of kind "throw" that the caller receives in *)
(* place of a result.                                                      *)
(***************************************************************************)
EXTENDS Integers, Sequences, FiniteSets, TLC

VARIABLES arr, arr2, called, args, result, global, myObj, heap, func, memory, invoked, locals

vars == <<arr, arr2, called, args, result, global, myObj, heap, func, memory, invoked, locals>>

(***************************************************************************)
(* Bounds of the model.                                                    *)
(***************************************************************************)
\* longest array drawn for the one-array statistics
MaxLen == 3
\* array elements are drawn from MinVal..MaxVal
MaxVal == 2
\* quantile's q is drawn from the grid 0/QGrid, 1/QGrid, ..., QGrid/QGrid
QGrid == 4
\* longest array drawn for the paired statistics
PairLen == 3
\* paired arrays hold elements of 0..PairVal
PairVal == 1

MinVal == 0 - 1

(***************************************************************************)
(* JavaScript values.                                                      *)
(***************************************************************************)
Abs(x) == IF x < 0 THEN 0 - x ELSE x

Sign(x) == IF x < 0 THEN 0 - 1 ELSE IF x > 0 THEN 1 ELSE 0

RECURSIVE GCD(_, _)
GCD(a, b) == IF b = 0 THEN a ELSE GCD(b, a % b)

\* the number n/d (d # 0), in lowest terms with a positive denominator
Rat(n, d) ==
  LET g == GCD(Abs(n), Abs(d))
      s == IF d < 0 THEN 0 - 1 ELSE 1
  IN [k |-> "num", n |-> s * (n \div g), d |-> s * (d \div g)]

\* the integer x as a JavaScript number
V(x) == Rat(x, 1)

NaN == [k |-> "nan", n |-> 0, d |-> 1]

\* +Infinity (s = 1) and -Infinity (s = -1)
Infinity(s) == [k |-> "inf", n |-> s, d |-> 1]

Undefined == [k |-> "undefined", n |-> 0, d |-> 1]

\* an exception of class err, propagating to the caller
Throw(err) == [k |-> "throw", n |-> 0, d |-> 1, err |-> err]

IsThrow(v) == v.k = "throw"

IsNum(v) == v.k = "num"

\* ToNumber of the operands of an arithmetic operator: undefined is NaN
ToNumber(v) == IF v.k = "undefined" THEN NaN ELSE v

Neg(a) ==
  LET x == ToNumber(a)
  IN CASE x.k = "nan" -> NaN
       [] x.k = "inf" -> Infinity(0 - x.n)
       [] OTHER -> Rat(0 - x.n, x.d)

Add(a, b) ==
  LET x == ToNumber(a)
      y == ToNumber(b)
  IN CASE x.k = "nan" \/ y.k = "nan" -> NaN
       [] x.k = "inf" /\ y.k = "inf" -> IF x.n = y.n THEN x ELSE NaN
       [] x.k = "inf" -> x
       [] y.k = "inf" -> y
       [] OTHER -> Rat(x.n * y.d + y.n * x.d, x.d * y.d)

Sub(a, b) == Add(a, Neg(b))

Mul(a, b) ==
  LET x == ToNumber(a)
      y == ToNumber(b)
  IN CASE x.k = "nan" \/ y.k = "nan" -> NaN
       [] x.k = "inf" \/ y.k = "inf" ->
            IF x.n = 0 \/ y.n = 0 THEN NaN ELSE Infinity(Sign(x.n) * Sign(y.n))
       [] OTHER -> Rat(x.n * y.n, x.d * y.d)

Div(a, b) ==
  LET x == ToNumber(a)
      y == ToNumber(b)
  IN CASE x.k = "nan" \/ y.k = "nan" -> NaN
       [] x.k = "inf" /\ y.k = "inf" -> NaN
       [] x.k = "inf" -> Infinity(x.n * (IF y.n < 0 THEN 0 - 1 ELSE 1))
       [] y.k = "inf" -> V(0)
       [] y.n = 0 -> IF x.n = 0 THEN NaN ELSE Infinity(Sign(x.n))
       [] OTHER -> Rat(x.n * y.d, x.d * y.n)

\* a < b and a <= b on numbers (false when either is NaN)
Less(a, b) ==
  CASE a.k = "nan" \/ b.k = "nan" -> FALSE
    [] a.k = "inf" -> a.n < 0 /\ ~(b.k = "inf" /\ b.n < 0)
    [] b.k = "inf" -> b.n > 0
    [] OTHER -> a.n * b.d < b.n * a.d

LessEq(a, b) == Less(a, b) \/ (a.k # "nan" /\ a = b)

\* Math.floor of a finite number, as an integer
Floor(x) == x.n \div x.d

\* the largest s with s * s <= v, for v >= 0, by bisection of lo..hi
RECURSIVE ISqrtIn(_, _, _)
ISqrtIn(v, lo, hi) ==
  IF lo = hi THEN lo
  ELSE LET mid == (lo + hi + 1) \div 2
       IN IF mid * mid <= v THEN ISqrtIn(v, mid, hi) ELSE ISqrtIn(v, lo, mid - 1)

ISqrt(v) == ISqrtIn(v, 0, IF v < 46340 THEN v ELSE 46340)

\* Math.sqrt: exact on the squares of rationals; any other positive number
\* has an irrational root, kept as the surd of n/d
Sqrt(a) ==
  LET x == ToNumber(a)
  IN CASE x.k = "nan" -> NaN
       [] x.k = "inf" -> IF x.n > 0 THEN x ELSE NaN
       [] x.n < 0 -> NaN
       [] ISqrt(x.n) * ISqrt(x.n) = x.n /\ ISqrt(x.d) * ISqrt(x.d) = x.d ->
            Rat(ISqrt(x.n), ISqrt(x.d))
       [] OTHER -> [k |-> "surd", n |-> x.n, d |-> x.d]

\* a[i] for an array of numbers and a 0-based index: undefined out of range
Index(a, i) == IF 0 <= i /\ i < Len(a) THEN V(a[i + 1]) ELSE Undefined

\* Array.prototype.sort with the comparator (a, b) => a - b: a stable
\* ascending numeric sort
InsertAsc(x, s) ==
  LET kk == Cardinality({j \in 1..Len(s) : s[j] <= x})
  IN SubSeq(s, 1, kk) \o <<x>> \o SubSeq(s, kk + 1, Len(s))

RECURSIVE SortAsc(_)
SortAsc(s) ==
  IF s = <<>> THEN <<>>
  ELSE InsertAsc(s[Len(s)], SortAsc(SubSeq(s, 1, Len(s) - 1)))

(***************************************************************************)
(* src/sorting.js: the statistics.  Arrays of the state hold integers; a   *)
(* function that mutates its argument returns the record [arr, value] of   *)
(* the array as the call leaves it and the value returned.                 *)
(***************************************************************************)

\* arr.reduce((a, b) => a + b, 0) over the first i elements
RECURSIVE sumUpTo(_, _)
sumUpTo(a, i) == IF i = 0 THEN V(0) ELSE Add(sumUpTo(a, i - 1), V(a[i]))

sum(a) == sumUpTo(a, Len(a))

mean(a) == Div(sum(a), V(Len(a)))

\* arr.map((num, mean) => num - mean): the callback's second parameter
\* shadows the outer mean and receives the element's 0-based index
deviations(a, mean_) == [i \in 1..Len(a) |-> Sub(V(a[i]), V(i - 1))]

squaredDeviations(a) == [i \in 1..Len(a) |-> Mul(a[i], a[i])]

\* a.reduce(sum) without an initial value: an empty array throws, a one
\* element array yields its element without a call of the callback, and the
\* first call sum(acc, cur, ...) evaluates acc.reduce on a number, which is
\* not a function
reduceWithSum(a) ==
  CASE Len(a) = 0 -> Throw("TypeError")
    [] Len(a) = 1 -> a[1]
    [] OTHER -> Throw("TypeError")

variance(a, sample) ==
  LET total == reduceWithSum(squaredDeviations(deviations(a, mean(a))))
  IN IF IsThrow(total) THEN total
     ELSE Div(total, V(Len(a) - (IF sample THEN 1 ELSE 0)))

\* variance is called without the flag; the flag is subtracted from the root
standardDeviation(a, sample) ==
  LET v == variance(a, FALSE)
  IN IF IsThrow(v) THEN v
     ELSE Sub(Sqrt(v), V(IF sample THEN 1 ELSE 0))

\* percentileCount with a tie counted as a whole element
RECURSIVE percentileCountTiesWhole(_, _, _)
percentileCountTiesWhole(a, val, i) ==
  IF i = 0 THEN V(0)
  ELSE LET count == percentileCountTiesWhole(a, val, i - 1)
       IN IF a[i] <= val THEN Add(count, V(1)) ELSE count

\* the count of percentile's forEach after the first i elements
RECURSIVE percentileCount(_, _, _)
percentileCount(a, val, i) ==
  IF i = 0 THEN V(0)
  ELSE LET count == percentileCount(a, val, i - 1)
       IN IF a[i] < val THEN Add(count, V(1))
          ELSE IF a[i] = val THEN Add(count, Rat(1, 2))
          ELSE count

percentile(a, val) ==
  Div(Mul(V(100), percentileCount(a, val, Len(a))), V(Len(a)))

\* arr.sort sorts the caller's array in place and returns it
quantile(a, q) ==
  LET sorted == SortAsc(a)
      pos == Mul(V(Len(sorted) - 1), q)
      fl == Floor(pos)
  IN [arr |-> sorted,
      value |->
        IF pos.d = 1 THEN Index(sorted, pos.n)
        ELSE IF Index(sorted, fl + 1) # Undefined
             THEN Div(Add(Index(sorted, fl), Index(sorted, fl + 1)), V(2))
             ELSE Index(sorted, fl)]

quartile25(a) == quantile(a, Rat(25, 100))

quartile50(a) == quantile(a, Rat(50, 100))

quartile75(a) == quantile(a, Rat(75, 100))

interQuartileRange(a) ==
  LET hi == quantile(a, Rat(75, 100))
      lo == quantile(hi.arr, Rat(25, 100))
  IN [arr |-> lo.arr, value |-> Sub(hi.value, lo.value)]

\* median taking the upper of the two middle elements of an even-length array
medianUpper(a) == Index(SortAsc(a), Len(a) \div 2)

\* [...arr].sort sorts a copy
median(a) ==
  LET mid == Len(a) \div 2
      nums == SortAsc(a)
  IN IF Len(a) % 2 # 0 THEN Index(nums, mid)
     ELSE Div(Add(Index(nums, mid - 1), Index(nums, mid)), V(2))

(***************************************************************************)
(* The calls of the one-array statistics.                                  *)
(***************************************************************************)
RECURSIVE SeqsUpTo(_, _)
SeqsUpTo(S, n) ==
  IF n = 0 THEN {<<>>}
  ELSE LET shorter == SeqsUpTo(S, n - 1)
       IN shorter \cup {Append(s, x) : s \in {t \in shorter : Len(t) = n - 1}, x \in S}

\* the array of the documented percentile example
ExampleArray == <<1, 2, 3, 4, 5>>

Arrays == SeqsUpTo(MinVal..MaxVal, MaxLen) \cup {ExampleArray}

QGridValues == {Rat(i, QGrid) : i \in 0..QGrid}

\* values asked of percentile: the element range, one below and one above it,
\* and the value of the documented example
PercentileValues == (MinVal - 1)..(MaxVal + 1) \cup {3}

Mutating(name, r) ==
  /\ arr' = r.arr
  /\ result' = r.value
  /\ called' = name
  /\ UNCHANGED <<arr2, global, myObj, heap, func, memory, invoked, locals>>

Reading(name, v) ==
  /\ result' = v
  /\ called' = name
  /\ UNCHANGED <<arr, arr2, global, myObj, heap, func, memory, invoked, locals>>

CallQuantile(q) == Mutating("quantile", quantile(arr, q)) /\ args' = [q |-> q]

CallQuartile25 == Mutating("quartile25", quartile25(arr)) /\ args' = <<>>

CallQuartile50 == Mutating("quartile50", quartile50(arr)) /\ args' = <<>>

CallQuartile75 == Mutating("quartile75", quartile75(arr)) /\ args' = <<>>

CallInterQuartileRange ==
  Mutating("interQuartileRange", interQuartileRange(arr)) /\ args' = <<>>

CallPercentile(val) ==
  Reading("percentile", percentile(arr, val)) /\ args' = [val |-> val]

CallVariance(sample) ==
  Reading("variance", variance(arr, sample)) /\ args' = [sample |-> sample]

CallStandardDeviation(sample) ==
  Reading("standardDeviation", standardDeviation(arr, sample))
  /\ args' = [sample |-> sample]

CallMean == Reading("mean", mean(arr)) /\ args' = <<>>

CallSum == Reading("sum", sum(arr)) /\ args' = <<>>

CallMedian == Reading("median", median(arr)) /\ args' = <<>>

NoCall == called = "none" /\ args = <<>> /\ result = Undefined

\* an identifier that no script has declared or assigned yet
Undeclared == [k |-> "undeclared", n |-> 0, d |-> 1]

\* the global object before any call: term and k are not properties of it
NoGlobals == [term |-> Undeclared, k |-> Undeclared]

\* the state outside the arrays and the record of the call, before any call
Untouched ==
  /\ global = NoGlobals
  /\ myObj = Undefined
  /\ heap = <<>>
  /\ func = Undefined
  /\ memory = <<>>
  /\ invoked = <<>>
  /\ locals = Undefined

InitStats ==
  arr \in Arrays /\ arr2 = <<>> /\ NoCall /\ Untouched

NextStats ==
  \/ \E q \in QGridValues : CallQuantile(q)
  \/ CallQuartile25
  \/ CallQuartile50
  \/ CallQuartile75
  \/ CallInterQuartileRange
  \/ \E val \in PercentileValues : CallPercentile(val)
  \/ \E sample \in BOOLEAN : CallVariance(sample)
  \/ \E sample \in BOOLEAN : CallStandardDeviation(sample)
  \/ CallMean
  \/ CallSum
  \/ CallMedian

SpecStats == InitStats /\ [][NextStats]_vars

(***************************************************************************)
(* The claims about the one-array statistics, under SpecStats.             *)
(***************************************************************************)

\* the type 7 (linear interpolation) quantile of a non-empty array
Type7Quantile(S, q) ==
  LET sorted == SortAsc(S)
      pos == Mul(V(Len(S) - 1), q)
      f == Floor(pos)
  IN IF pos.d = 1 THEN V(sorted[pos.n + 1])
     ELSE Add(V(sorted[f + 1]),
              Mul(Sub(pos, V(f)), Sub(V(sorted[f + 2]), V(sorted[f + 1]))))

\* C1: for a non-empty array and q in [0,1], quantile returns sorted[pos] when
\* pos = (n-1)*q is an integer and otherwise the linear interpolation
\* sorted[f] + (pos - f) * (sorted[f+1] - sorted[f]) with f = floor(pos).
C1_QuantileInterpolates ==
  (called = "quantile" /\ Len(arr) > 0) => result = Type7Quantile(arr, args.q)

QuantileFamily ==
  {"quantile", "quartile25", "quartile50", "quartile75", "interQuartileRange"}

\* C2: a call of quantile, of a quartile or of interQuartileRange leaves the
\* caller's array as it was: the same elements in the same order.
C2_QuantileLeavesInput == [][called' \in QuantileFamily => arr' = arr]_vars

\* 100 * (elements below val + half the elements equal to val) / length
MidRank(S, val) ==
  Rat(100 * (2 * Cardinality({i \in 1..Len(S) : S[i] < val})
               + Cardinality({i \in 1..Len(S) : S[i] = val})),
      2 * Len(S))

RECURSIVE SumSquares(_, _, _)
SumSquares(S, m, i) ==
  IF i = 0 THEN V(0)
  ELSE Add(SumSquares(S, m, i - 1), Mul(Sub(V(S[i]), m), Sub(V(S[i]), m)))

MeanOf(S) == Rat(sum(S).n, sum(S).d * Len(S))

VarianceOf(S, isSample) ==
  Div(SumSquares(S, MeanOf(S), Len(S)), V(Len(S) - (IF isSample THEN 1 ELSE 0)))

\* C4: for n >= 2, variance(S, isSample) is the sum of the squared deviations
\* from the mean, divided by n, or by n - 1 when isSample is truthy.
C4_VarianceIsMeanSquare ==
  (called = "variance" /\ Len(arr) >= 2) =>
    result = VarianceOf(arr, args.sample)

\* C5: standardDeviation(S, isSample) is the square root of
\* variance(S, isSample): it is not negative and its square is the variance
\* computed with the same flag (and it throws only what variance throws).
C5_StdDevIsRootOfVariance ==
  called = "standardDeviation" =>
    LET v == variance(arr, args.sample)
    IN IF IsThrow(v) THEN result = v
       ELSE Mul(result, result) = v /\ ~Less(result, V(0))

\* the median of S by its definition: the middle element of sorted S, or the
\* average of the two middle elements
MedianOf(S) ==
  LET sorted == SortAsc(S)
      n == Len(S)
  IN IF n % 2 = 1 THEN V(sorted[(n + 1) \div 2])
     ELSE Rat(sorted[n \div 2] + sorted[(n \div 2) + 1], 2)

\* C14: for a non-empty array S, quantile(S, 0.5) and quartile50(S) return
\* median(S): the middle element of sorted S when |S| is odd and the average
\* of the two middle elements when |S| is even.
C14_QuantileHalfIsMedian ==
  [][((called' = "quartile50" \/ (called' = "quantile" /\ args'.q = Rat(1, 2)))
        /\ Len(arr) > 0)
       => (result' = median(arr) /\ result' = MedianOf(arr))]_vars

\* quartile50 averaged the two middle elements of an even-length array
C14_Witness ==
  /\ called = "quartile50"
  /\ Len(arr) % 2 = 0 /\ Len(arr) > 0
  /\ result = Rat(arr[Len(arr) \div 2] + arr[(Len(arr) \div 2) + 1], 2)
  /\ arr[Len(arr) \div 2] # arr[(Len(arr) \div 2) + 1]

(***************************************************************************)
(* src/sorting.js: the paired statistics.                                  *)
(***************************************************************************)

\* the sum of sampleCovariance's loop after i rounds
RECURSIVE sampleCovarianceSum(_, _, _, _, _)
sampleCovarianceSum(arr1, arr2_, mean1, mean2, i) ==
  IF i = 0 THEN V(0)
  ELSE Add(sampleCovarianceSum(arr1, arr2_, mean1, mean2, i - 1),
           Mul(Sub(Index(arr1, i - 1), mean1), Sub(Index(arr2_, i - 1), mean2)))

\* sampleCovariance without Bessel's correction
sampleCovarianceByLength(arr1, arr2_) ==
  Div(sampleCovarianceSum(arr1, arr2_, mean(arr1), mean(arr2_), Len(arr1)),
      V(Len(arr1)))

sampleCovariance(arr1, arr2_) ==
  LET mean1 == mean(arr1)
      mean2 == mean(arr2_)
      besselsCorrection == Len(arr1) - 1
  IN Div(sampleCovarianceSum(arr1, arr2_, mean1, mean2, Len(arr1)),
         V(besselsCorrection))

\* no file of the repository declares sampleStandardDeviation: evaluating
\* the identifier throws a ReferenceError
sampleStandardDeviation(a) == Throw("ReferenceError")

sampleCorrelation(arr1, arr2_) ==
  LET cov == sampleCovariance(arr1, arr2_)
      xstd == sampleStandardDeviation(arr1)
      ystd == sampleStandardDeviation(arr2_)
  IN IF IsThrow(xstd) THEN xstd
     ELSE IF IsThrow(ystd) THEN ystd
     ELSE Div(Div(cov, xstd), ystd)

CallSampleCovariance ==
  Reading("sampleCovariance", sampleCovariance(arr, arr2)) /\ args' = <<>>

CallSampleCorrelation ==
  Reading("sampleCorrelation", sampleCorrelation(arr, arr2)) /\ args' = <<>>

PairedArrays == SeqsUpTo(0..PairVal, PairLen)

InitPaired ==
  /\ arr \in PairedArrays /\ arr2 \in PairedArrays
  /\ NoCall /\ Untouched

NextPaired == CallSampleCovariance \/ CallSampleCorrelation

SpecPaired == InitPaired /\ [][NextPaired]_vars

(***************************************************************************)
(* The claims about the paired statistics, under SpecPaired.               *)
(***************************************************************************)

\* the sum of (a[j] - ma) * (b[j] - mb) over the first i indices
RECURSIVE SumProducts(_, _, _, _, _)
SumProducts(a, b, ma, mb, i) ==
  IF i = 0 THEN V(0)
  ELSE Add(SumProducts(a, b, ma, mb, i - 1),
           Mul(Sub(V(a[i]), ma), Sub(V(b[i]), mb)))

CovarianceOf(a, b) ==
  Div(SumProducts(a, b, MeanOf(a), MeanOf(b), Len(a)), V(Len(a) - 1))

PairedSample == Len(arr) = Len(arr2) /\ Len(arr) >= 2

\* C6: for equal-length arrays with n >= 2 and non-zero variance each,
\* sampleCorrelation returns the number cov(a,b) / (sd(a) * sd(b)), sd the
\* sample standard deviation, and that number lies in [-1, 1].
C6_CorrelationIsScaledCovariance ==
  (/\ called = "sampleCorrelation"
   /\ PairedSample
   /\ VarianceOf(arr, TRUE) # V(0)
   /\ VarianceOf(arr2, TRUE) # V(0)) =>
    /\ IsNum(result)
    /\ LessEq(V(0 - 1), result) /\ LessEq(result, V(1))
    /\ Sign(result.n) = Sign(CovarianceOf(arr, arr2).n)
    /\ Mul(Mul(result, result), Mul(VarianceOf(arr, TRUE), VarianceOf(arr2, TRUE)))
         = Mul(CovarianceOf(arr, arr2), CovarianceOf(arr, arr2))

\* C7: for equal-length arrays with n >= 2, sampleCovariance(a, b) is the sum
\* of (a[i] - mean(a)) * (b[i] - mean(b)) divided by n - 1, and it equals
\* sampleCovariance(b, a).
C7_CovarianceIsCentredProduct ==
  (called = "sampleCovariance" /\ PairedSample) =>
    /\ result = CovarianceOf(arr, arr2)
    /\ result = sampleCovariance(arr2, arr)

\* sampleCovariance was called on two different arrays that move in opposite
\* directions
C7_Witness ==
  /\ called = "sampleCovariance"
  /\ PairedSample
  /\ arr # arr2
  /\ IsNum(result) /\ result.n < 0

(***************************************************************************)
(* src/sorting.js: pvalueToZscore.  Its polynomials, logarithm and square   *)
(* root are evaluated in fixed point arithmetic with Scale units to one:   *)
(* the value x is the integer floor(x * Scale).                            *)
(***************************************************************************)
Scale == 1000

\* the decimal literal w.fffffff (seven fraction digits, as in the source)
Coef(w, f7) == w * Scale + f7 \div (10000000 \div Scale)

ToFx(x) == (x.n * Scale) \div x.d

FromFx(v) == Rat(v, Scale)

FxMul(a, b) == (a * b) \div Scale

FxDiv(a, b) == (a * Scale) \div b

\* y + y^3/3 + y^5/5 + ... from the term y^j/j on, until the power vanishes
RECURSIVE FxAtanhFrom(_, _, _)
FxAtanhFrom(y, power, j) ==
  IF power = 0 THEN 0
  ELSE power \div j + FxAtanhFrom(y, FxMul(FxMul(power, y), y), j + 2)

\* log of x in [1/2, 1]: 2 * atanh((x - 1) / (x + 1))
FxLogNearOne(x) ==
  LET y == 0 - FxDiv(Scale - x, Scale + x)
  IN 0 - 2 * FxAtanhFrom(0 - y, 0 - y, 1)

\* Math.log of x in (0, 1]: log(x) = log(2x) - log(2) until x >= 1/2
RECURSIVE FxLog(_)
FxLog(x) ==
  IF 2 * x >= Scale THEN FxLogNearOne(x)
  ELSE FxLog(2 * x) + FxLogNearOne(Scale \div 2)

FxSqrt(x) == ISqrt(x * Scale)

\* no file of the repository declares percentile_z: evaluating the
\* identifier throws a ReferenceError
percentile_z(p) == Throw("ReferenceError")

\* the branch for 0.92 < p < 1
pvalueToZscoreTail(p) ==
  LET r == FxSqrt(0 - FxLog(Scale - p))
      num == FxMul(FxMul(FxMul(Coef(2, 3212128), r) + Coef(4, 8501413), r)
                     - Coef(2, 2979648), r) - Coef(2, 7871893)
      den == FxMul(FxMul(Coef(1, 6370678), r) + Coef(3, 5438892), r) + Scale
  IN FxDiv(num, den)

\* the branch for 0.5 <= p <= 0.92
pvalueToZscoreCentral(p0) ==
  LET p == p0 - Scale \div 2
      r == FxMul(p, p)
      num == FxMul(FxMul(FxMul(0 - Coef(25, 4410605), r) + Coef(41, 3911977), r)
                     - Coef(18, 6150006), r) + Coef(2, 5066282)
      den == FxMul(FxMul(FxMul(FxMul(Coef(3, 1308291), r) - Coef(21, 0622410), r)
                           + Coef(23, 0833674), r) - Coef(8, 4735109), r) + Scale
  IN FxDiv(FxMul(p, num), den)

pvalueToZscore(p) ==
  IF Less(p, Rat(1, 2)) THEN
    LET z == percentile_z(Sub(V(1), p))
    IN IF IsThrow(z) THEN z ELSE Neg(z)
  ELSE IF Less(Rat(92, 100), p) THEN
    IF p = V(1) THEN Infinity(1) ELSE FromFx(pvalueToZscoreTail(ToFx(p)))
  ELSE FromFx(pvalueToZscoreCentral(ToFx(p)))

(***************************************************************************)
(* src/sorting.js: zScoreToPvalue.  Its series is evaluated in binary      *)
(* floating point arithmetic with a significand of MantBits bits, rounded  *)
(* to nearest, ties to even, after every operation, as IEEE doubles are    *)
(* with 53 bits: the float [m, e] is the number m * 2^e, with              *)
(* 2^(MantBits-1) <= |m| < 2^MantBits or m = 0.                            *)
(***************************************************************************)
MantBits == 15

\* the number of bits of n, for 0 <= n < 2^31
BitLen(n) == Cardinality({b \in 0..30 : 2^b <= n})

\* m * 2^e rounded to MantBits significant bits
FlNorm(m, e) ==
  LET a == Abs(m)
      s == BitLen(a) - MantBits
  IN IF m = 0 THEN [m |-> 0, e |-> 0]
     ELSE IF s <= 0 THEN [m |-> m * 2^(0 - s), e |-> e + s]
     ELSE LET q == a \div 2^s
              r == a % 2^s
              half == 2^(s - 1)
              up == IF r > half \/ (r = half /\ q % 2 = 1) THEN q + 1 ELSE q
          IN IF up = 2^MantBits
             THEN [m |-> Sign(m) * 2^(MantBits - 1), e |-> e + s + 1]
             ELSE [m |-> Sign(m) * up, e |-> e + s]

FlInt(n) == FlNorm(n, 0)

FlNeg(a) == [m |-> 0 - a.m, e |-> a.e]

FlAbs(a) == [m |-> Abs(a.m), e |-> a.e]

FlMul(a, b) == FlNorm(a.m * b.m, a.e + b.e)

\* the quotient to MantBits + 2 bits and a sticky bit for the remainder
FlDiv(a, b) ==
  LET q == (Abs(a.m) * 2^(MantBits + 1)) \div Abs(b.m)
      sticky == IF (Abs(a.m) * 2^(MantBits + 1)) % Abs(b.m) = 0 THEN 0 ELSE 1
  IN FlNorm(Sign(a.m) * Sign(b.m) * (2 * q + sticky), a.e - b.e - MantBits - 2)

\* big + small for big.e >= small.e
FlAddOrdered(big, small) ==
  LET dd == big.e - small.e
  IN IF small.m = 0 THEN big
     ELSE IF big.m = 0 THEN small
     ELSE IF dd < MantBits THEN FlNorm(big.m * 2^dd + small.m, small.e)
     ELSE IF dd > MantBits + 2 THEN big
     ELSE LET shifted == Abs(small.m) \div 2^(dd - 2)
              sticky == IF Abs(small.m) % 2^(dd - 2) = 0 THEN 0 ELSE 1
          IN FlNorm(big.m * 8 + Sign(small.m) * (2 * shifted + sticky), big.e - 3)

FlAdd(a, b) == IF a.e >= b.e THEN FlAddOrdered(a, b) ELSE FlAddOrdered(b, a)

FlLess(a, b) == FlAdd(a, FlNeg(b)).m < 0

\* Math.pow(x, n) for an integer n >= 0, by squaring: pow(x, 0) is 1, also
\* for x = 0
RECURSIVE FlPow(_, _)
FlPow(x, n) ==
  IF n = 0 THEN FlInt(1)
  ELSE LET root == FlPow(x, n \div 2)
       IN IF n % 2 = 0 THEN FlMul(root, root) ELSE FlMul(FlMul(root, root), x)

\* the double nearest to the number x
FlFromRat(x) == FlDiv(FlInt(x.n), FlInt(x.d))

\* the number of the float a, to 30 binary places
FlToRat(a) ==
  IF a.e >= 0 THEN V(a.m * 2^a.e)
  ELSE IF a.e >= 0 - 30 THEN Rat(a.m, 2^(0 - a.e))
  ELSE IF a.e < 0 - 30 - MantBits THEN V(0)
  ELSE Rat(Sign(a.m) * (Abs(a.m) \div 2^(0 - a.e - 30)), 2^30)

\* the float a as a JavaScript value
FlValue(a) == [k |-> "float", n |-> a.m, d |-> a.e]

\* Math.exp(-23): 1 / e^23
loopStop == FlDiv(FlInt(1), FlPow(FlFromRat(Rat(27183, 10000)), 23))

\* the variables of the series with term set up as 0
zScoreToPvalueLetZero ==
  [factK |-> FlInt(1), term |-> FlInt(0), pvalue |-> FlInt(0), k |-> 0]

\* the variables of the series as the let sets them up
zScoreToPvalueLet ==
  [factK |-> FlInt(1), term |-> FlInt(1), pvalue |-> FlInt(0), k |-> 0]

\* at most n rounds of the while loop, from its test on, with the variables
\* at: their values after the last of these rounds
RECURSIVE zScoreToPvalueRounds(_, _, _)
zScoreToPvalueRounds(z, at, n) ==
  IF n = 0 \/ ~FlLess(loopStop, FlAbs(at.term)) THEN at
  ELSE LET term ==
             FlDiv(FlMul(FlDiv(FlDiv(FlMul(FlMul(FlFromRat(Rat(39894, 100000)),
                                                 FlPow(FlInt(0 - 1), at.k)),
                                           FlPow(z, at.k)),
                                     FlInt(2 * at.k + 1)),
                               FlPow(FlInt(2), at.k)),
                         FlPow(z, at.k + 1)),
                   at.factK)
       IN zScoreToPvalueRounds(z, [factK |-> FlMul(at.factK, FlInt(at.k + 1)),
                                   term |-> term,
                                   pvalue |-> FlAdd(at.pvalue, term),
                                   k |-> at.k + 1],
                               n - 1)

\* the while loop, from its test on, with the variables at: their values
\* when the loop exits (the rounds are evaluated eight at a time)
RECURSIVE zScoreToPvalueLoop(_, _)
zScoreToPvalueLoop(z, at) ==
  IF ~FlLess(loopStop, FlAbs(at.term)) THEN at
  ELSE zScoreToPvalueLoop(z, zScoreToPvalueRounds(z, at, 8))

\* zScoreToPvalue with the two early returns placed after the let, where the
\* variables of the series have been set up
zScoreToPvalueLateReturn(z) ==
  IF Less(z, Rat(0 - 13, 2))
  THEN [value |-> V(0), writes |-> [term |-> FlValue(FlInt(1)), k |-> V(0)]]
  ELSE IF Less(Rat(13, 2), z)
  THEN [value |-> V(1), writes |-> [term |-> FlValue(FlInt(1)), k |-> V(0)]]
  ELSE LET end == zScoreToPvalueLoop(FlFromRat(z), zScoreToPvalueLet)
       IN [value |-> FlToRat(FlAdd(end.pvalue, FlFromRat(Rat(1, 2)))),
           writes |-> [term |-> FlValue(end.term), k |-> V(end.k)]]

\* The record of the value returned and of the properties of the global
\* object written: "let factK = term = 1, pvalue = k = 0" declares factK and
\* pvalue only, and assigns term and k, which no scope declares, in a script
\* that is not in strict mode: they are properties of the global object.
zScoreToPvalue(z) ==
  IF Less(z, Rat(0 - 13, 2)) THEN [value |-> V(0), writes |-> <<>>]
  ELSE IF Less(Rat(13, 2), z) THEN [value |-> V(1), writes |-> <<>>]
  ELSE LET end == zScoreToPvalueLoop(FlFromRat(z), zScoreToPvalueLet)
       IN [value |-> FlToRat(FlAdd(end.pvalue, FlFromRat(Rat(1, 2)))),
           writes |-> [term |-> FlValue(end.term), k |-> V(end.k)]]

\* p is drawn from the grid 0/PGrid, 1/PGrid, ..., PGrid/PGrid
PGrid == 100

\* z is drawn from the halves from -ZMax to ZMax, where MantBits bits carry
\* the series, and from the halves beyond 6.5 up to ZFar on either side
ZMax == 2

ZFar == 7

ZValues == {Rat(i, 2) : i \in (0 - 2 * ZMax)..(2 * ZMax)}
             \cup {Rat(i, 2) : i \in (0 - 2 * ZFar)..(0 - 14)}
             \cup {Rat(i, 2) : i \in 14..(2 * ZFar)}

\* the global object after the assignments writes
Assigned(writes) ==
  [name \in DOMAIN global |->
     IF name \in DOMAIN writes THEN writes[name] ELSE global[name]]

\* the calls zScoreToPvalue(z) that are made, each with what it does
zScoreToPvalueCalls ==
  {[z |-> input, does |-> zScoreToPvalue(input)] : input \in ZValues}

CallZScoreToPvalue(z) ==
  LET r == (CHOOSE call \in zScoreToPvalueCalls : call.z = z).does
  IN /\ result' = r.value
     /\ global' = Assigned(r.writes)
     /\ called' = "zScoreToPvalue"
     /\ args' = [z |-> z]
     /\ UNCHANGED <<arr, arr2, myObj, heap, func, memory, invoked, locals>>

\* the value a caller has at hand to pass on: what zScoreToPvalue returned
Returned == IF called = "zScoreToPvalue" THEN {result} ELSE {}

PValues == {Rat(i, PGrid) : i \in 0..PGrid}

CallPvalueToZscore(p) ==
  Reading("pvalueToZscore", pvalueToZscore(p)) /\ args' = [p |-> p]

InitPvalue ==
  arr = <<>> /\ arr2 = <<>> /\ NoCall /\ Untouched

NextPvalue ==
  \/ \E p \in PValues \cup Returned : CallPvalueToZscore(p)
  \/ \E z \in ZValues : CallZScoreToPvalue(z)

SpecPvalue == InitPvalue /\ [][NextPvalue]_vars

\* C8: for 0 <= p < 0.5, pvalueToZscore(p) is the negation of
\* pvalueToZscore(1 - p), and pvalueToZscore(1) is +Infinity.
C8_PvalueSymmetry ==
  called = "pvalueToZscore" =>
    /\ Less(args.p, Rat(1, 2)) => result = Neg(pvalueToZscore(Sub(V(1), args.p)))
    /\ args.p = V(1) => result = Infinity(1)

(***************************************************************************)
(* src/geojson.js: validateEarthRadius.  A string is the sequence of its   *)
(* characters.                                                             *)
(***************************************************************************)
UpperLetters ==
  <<"A", "B", "C", "D", "E", "F", "G", "H", "I", "J", "K", "L", "M", "N", "O", "P", "Q", "R", "S", "T", "U", "V", "W", "X", "Y", "Z">>

LowerLetters ==
  <<"a", "b", "c", "d", "e", "f", "g", "h", "i", "j", "k", "l", "m", "n", "o", "p", "q", "r", "s", "t", "u", "v", "w", "x", "y", "z">>

LetterIndex(letters, c) == CHOOSE i \in 1..Len(letters) : letters[i] = c

IsLetterOf(letters, c) == \E i \in 1..Len(letters) : letters[i] = c

toLowerCaseChar(c) ==
  IF IsLetterOf(UpperLetters, c) THEN LowerLetters[LetterIndex(UpperLetters, c)]
  ELSE c

\* String.prototype.toLowerCase
toLowerCase(str) == [i \in 1..Len(str) |-> toLowerCaseChar(str[i])]

\* the number literal whole.ffff (four fraction digits): too wide for n/d
Decimal(whole, tenThousandths) ==
  [k |-> "num", whole |-> whole, tenThousandths |-> tenThousandths]

\* the object literal of validateEarthRadius: its own properties
radius ==
  <<"m">> :> Decimal(6371008, 7714) @@
  <<"m", "e", "t", "e", "r", "s">> :> Decimal(6371008, 7714) @@
  <<"m", "e", "t", "r", "e", "s">> :> Decimal(6371008, 7714) @@
  <<"k", "m">> :> Decimal(6371, 90) @@
  <<"k", "i", "l", "o", "m", "e", "t", "e", "r", "s">> :> Decimal(6371, 90) @@
  <<"k", "i", "l", "o", "m", "e", "t", "r", "e", "s">> :> Decimal(6371, 90) @@
  <<"m", "i">> :> Decimal(3958, 7610) @@
  <<"m", "i", "l", "e", "s">> :> Decimal(3958, 7610) @@
  <<"n", "m">> :> Decimal(3440, 700) @@
  <<"n", "u", "a", "t", "i", "c", "a", "l", "m", "i", "l", "e", "s">> :> Decimal(3440, 700) @@
  <<"y", "d">> :> Decimal(6967420, 0) @@
  <<"y", "a", "r", "d", "s">> :> Decimal(6967420, 0) @@
  <<"f", "t">> :> Decimal(20902260, 0) @@
  <<"f", "e", "e", "t", "s">> :> Decimal(20902260, 0)

\* the properties every object literal inherits from Object.prototype
ObjectPrototypeKeys ==
  {<<"c", "o", "n", "s", "t", "r", "u", "c", "t", "o", "r">>,
   <<"_", "_", "p", "r", "o", "t", "o", "_", "_">>,
   <<"h", "a", "s", "O", "w", "n", "P", "r", "o", "p", "e", "r", "t", "y">>,
   <<"i", "s", "P", "r", "o", "t", "o", "t", "y", "p", "e", "O", "f">>,
   <<"p", "r", "o", "p", "e", "r", "t", "y", "I", "s", "E", "n", "u", "m", "e", "r", "a", "b", "l", "e">>,
   <<"t", "o", "L", "o", "c", "a", "l", "e", "S", "t", "r", "i", "n", "g">>,
   <<"t", "o", "S", "t", "r", "i", "n", "g">>,
   <<"v", "a", "l", "u", "e", "O", "f">>,
   <<"_", "_", "d", "e", "f", "i", "n", "e", "G", "e", "t", "t", "e", "r", "_", "_">>,
   <<"_", "_", "d", "e", "f", "i", "n", "e", "S", "e", "t", "t", "e", "r", "_", "_">>,
   <<"_", "_", "l", "o", "o", "k", "u", "p", "G", "e", "t", "t", "e", "r", "_", "_">>,
   <<"_", "_", "l", "o", "o", "k", "u", "p", "S", "e", "t", "t", "e", "r", "_", "_">>}

\* unit in radius: own and inherited properties
In(key, obj) == key \in DOMAIN obj \/ key \in ObjectPrototypeKeys

\* radius[unit]: an own property, or else the inherited one
Get(obj, key) ==
  IF key \in DOMAIN obj THEN obj[key]
  ELSE IF key = <<"_", "_", "p", "r", "o", "t", "o", "_", "_">>
       THEN [k |-> "object", name |-> <<"Object.prototype">>]
  ELSE [k |-> "function", name |-> key]

\* Error(`Not a valid unit: ${unit}`)
NotAValidUnit(unit) ==
  [k |-> "throw", n |-> 0, d |-> 1, err |-> "Error",
   message |-> <<"Not a valid unit: ", unit>>]

validateEarthRadius(unit0) ==
  LET unit == toLowerCase(unit0)
  IN IF In(unit, radius) THEN Get(radius, unit) ELSE NotAValidUnit(unit)

(***************************************************************************)
(* The calls of validateEarthRadius.                                       *)
(***************************************************************************)
\* the upper-cased letters of a variant lie in the first CaseWidth characters
CaseWidth == 3

\* the documented unit names, the names of one unit together
DocumentedUnits ==
  {{<<"m">>, <<"m", "e", "t", "e", "r", "s">>, <<"m", "e", "t", "r", "e", "s">>},
   {<<"k", "m">>, <<"k", "i", "l", "o", "m", "e", "t", "e", "r", "s">>, <<"k", "i", "l", "o", "m", "e", "t", "r", "e", "s">>},
   {<<"m", "i">>, <<"m", "i", "l", "e", "s">>},
   {<<"n", "m">>, <<"n", "a", "u", "t", "i", "c", "a", "l", "m", "i", "l", "e", "s">>},
   {<<"y", "d">>, <<"y", "a", "r", "d", "s">>},
   {<<"f", "t">>, <<"f", "e", "e", "t", "s">>}}

DocumentedNames == UNION DocumentedUnits

\* names outside the documentation
OtherNames ==
  {<<>>,
   <<"c", "m">>,
   <<"k", "m", "s">>,
   <<"m", "i", "l", "e">>,
   <<"n", "u", "a", "t", "i", "c", "a", "l", "m", "i", "l", "e", "s">>,
   <<"c", "o", "n", "s", "t", "r", "u", "c", "t", "o", "r">>,
   <<"_", "_", "p", "r", "o", "t", "o", "_", "_">>,
   <<"t", "o", "S", "t", "r", "i", "n", "g">>,
   <<"v", "a", "l", "u", "e", "O", "f">>}

toUpperCaseChar(c) ==
  IF IsLetterOf(LowerLetters, c) THEN UpperLetters[LetterIndex(LowerLetters, c)]
  ELSE c

\* str with the characters at the positions of S upper-cased
UpperCasedAt(str, S) ==
  [i \in 1..Len(str) |-> IF i \in S THEN toUpperCaseChar(str[i]) ELSE str[i]]

Shorter(a, b) == IF a < b THEN a ELSE b

UnitInputs ==
  {UpperCasedAt(str, 1..Len(str)) : str \in DocumentedNames \cup OtherNames}
  \cup UNION {{UpperCasedAt(str, S) : S \in SUBSET (1..Shorter(Len(str), CaseWidth))} :
                str \in DocumentedNames \cup OtherNames}

CallValidateEarthRadius(unit) ==
  Reading("validateEarthRadius", validateEarthRadius(unit)) /\ args' = [unit |-> unit]

InitUnits ==
  arr = <<>> /\ arr2 = <<>> /\ NoCall /\ Untouched

NextUnits == \E unit \in UnitInputs : CallValidateEarthRadius(unit)

SpecUnits == InitUnits /\ [][NextUnits]_vars

\* the names documented for the unit of name, and the shortest of them
SameUnit(name) == CHOOSE G \in DocumentedUnits : name \in G

Abbreviation(name) ==
  CHOOSE x \in SameUnit(name) : \A y \in SameUnit(name) : Len(x) <= Len(y)

\* C9: for every documented unit name, in any letter case,
\* validateEarthRadius returns a number without throwing, the names of one
\* unit return the same number, and km returns 6371.009.
C9_DocumentedUnitsHaveRadius ==
  (called = "validateEarthRadius" /\ toLowerCase(args.unit) \in DocumentedNames) =>
    /\ IsNum(result)
    /\ result = validateEarthRadius(Abbreviation(toLowerCase(args.unit)))
    /\ toLowerCase(args.unit) = <<"k", "m">> => result = Decimal(6371, 90)

\* C10: for every string that, lower-cased, is not a key of the radius table,
\* validateEarthRadius throws an Error whose message names the lower-cased
\* unit, and returns no value.
C10_UnknownUnitThrows ==
  (called = "validateEarthRadius" /\ toLowerCase(args.unit) \notin DOMAIN radius) =>
    /\ IsThrow(result)
    /\ result.err = "Error"
    /\ result.message[2] = toLowerCase(args.unit)

(***************************************************************************)
(* src/geojson.js: the point tests.  A point is the pair <<x, y>> of its   *)
(* numbers ([0] is lon, [1] is lat); a polygon is the sequence of its      *)
(* vertices.                                                               *)
(***************************************************************************)
\* the boolean b as a JavaScript value
Bool(b) == [k |-> "boolean", n |-> 0, d |-> 1, b |-> b]

\* pointInBoundingBox with the plain range test across the antimeridian too
pointInBoundingBoxPlain(bl, tr, p) ==
  /\ LessEq(bl[2], p[2]) /\ LessEq(p[2], tr[2])
  /\ LessEq(bl[1], p[1]) /\ LessEq(p[1], tr[1])

pointInBoundingBox(bl, tr, p) ==
  LET isLongInRange ==
        IF Less(tr[1], bl[1])
        THEN LessEq(bl[1], p[1]) \/ LessEq(p[1], tr[1])
        ELSE LessEq(bl[1], p[1]) /\ LessEq(p[1], tr[1])
  IN LessEq(bl[2], p[2]) /\ LessEq(p[2], tr[2]) /\ isLongInRange

isLeft(p0, p1, p2) ==
  Sub(Mul(Sub(p1[1], p0[1]), Sub(p2[2], p0[2])),
      Mul(Sub(p2[1], p0[1]), Sub(p1[2], p0[2])))

\* wn after the first i rounds of the edge loop
RECURSIVE windingAfter(_, _, _)
windingAfter(point, newPoints, i) ==
  IF i = 0 THEN 0
  ELSE LET wn == windingAfter(point, newPoints, i - 1)
           from == newPoints[i]
           to == newPoints[i + 1]
       IN IF LessEq(from[2], point[2])
          THEN IF Less(point[2], to[2]) /\ Less(V(0), isLeft(from, to, point))
               THEN wn + 1 ELSE wn
          ELSE IF LessEq(to[2], point[2]) /\ Less(isLeft(from, to, point), V(0))
               THEN wn - 1 ELSE wn

\* pointInPolyWindingNumber that counts a clockwise crossing up as well
RECURSIVE windingAfterUp(_, _, _)
windingAfterUp(point, newPoints, i) ==
  IF i = 0 THEN 0
  ELSE LET wn == windingAfterUp(point, newPoints, i - 1)
           from == newPoints[i]
           to == newPoints[i + 1]
       IN IF LessEq(from[2], point[2])
          THEN IF Less(point[2], to[2]) /\ Less(V(0), isLeft(from, to, point))
               THEN wn + 1 ELSE wn
          ELSE IF LessEq(to[2], point[2]) /\ Less(isLeft(from, to, point), V(0))
               THEN wn + 1 ELSE wn

pointInPolyWindingNumberUp(point, polygon) ==
  IF Len(polygon) = 0 THEN FALSE
  ELSE windingAfterUp(point, Append(polygon, polygon[1]), Len(polygon)) # 0

pointInPolyWindingNumber(point, polygon) ==
  IF Len(polygon) = 0 THEN FALSE
  ELSE LET n == Len(polygon)
           newPoints == Append(polygon, polygon[1])
       IN windingAfter(point, newPoints, n) # 0

\* inside after the first i rounds of the loop, where j starts at the vertex
\* start and then follows i
RECURSIVE raycastAfter(_, _, _, _)
raycastAfter(point, polygon, start, i) ==
  IF i = 0 THEN FALSE
  ELSE LET inside == raycastAfter(point, polygon, start, i - 1)
           j == IF i = 1 THEN start ELSE i - 1
           x == point[1]
           y == point[2]
           xi == polygon[i][1]
           yi == polygon[i][2]
           xj == polygon[j][1]
           yj == polygon[j][2]
           intersect ==
             /\ Less(y, yi) # Less(y, yj)
             /\ Less(x, Add(Div(Mul(Sub(xj, xi), Sub(y, yi)), Sub(yj, yi)), xi))
       IN IF intersect THEN ~inside ELSE inside

\* pointInPolyRaycast whose first round pairs vertex 0 with itself: the
\* closing edge is left out
pointInPolyRaycastOpen(point, polygon) ==
  raycastAfter(point, polygon, 1, Len(polygon))

\* j starts at polygon.length - 1
pointInPolyRaycast(point, polygon) ==
  raycastAfter(point, polygon, Len(polygon), Len(polygon))

(***************************************************************************)
(* The calls of the point tests.                                           *)
(***************************************************************************)
\* longitudes are drawn from the multiples of 85 up to BoxGrid * 85 and 175
BoxGrid == 2
\* the vertices of the polygons are drawn from the grid 0..PolyGrid squared
PolyGrid == 1
\* most vertices of a polygon drawn from the grid
PolyLen == 3
\* the corners of the rectangles are drawn from the grid 0..RectSize squared
RectSize == 1

Longitudes == {V(85 * i) : i \in (0 - BoxGrid)..BoxGrid} \cup {V(175)}

Latitudes == {V(10 * i) : i \in (0 - 1)..1}

BoxPoints == Longitudes \X Latitudes

GridPoints == {<<V(i), V(j)>> : i \in 0..PolyGrid, j \in 0..PolyGrid}

\* the centres of the cells of the grid
CellCentres ==
  {<<Rat(2 * i + 1, 2), Rat(2 * j + 1, 2)>> : i \in 0..(PolyGrid - 1), j \in 0..(PolyGrid - 1)}

GridPolygons == SeqsUpTo(GridPoints, PolyLen)

\* the rectangle of corners (x0, y0) and (x1, y1), counterclockwise from (x0, y0)
Rectangle(x0, y0, x1, y1) ==
  <<<<V(x0), V(y0)>>, <<V(x1), V(y0)>>, <<V(x1), V(y1)>>, <<V(x0), V(y1)>>>>

Reversed(s) == [i \in 1..Len(s) |-> s[Len(s) + 1 - i]]

\* s listed from its vertex r + 1 on
Rotated(s, r) == [i \in 1..Len(s) |-> s[((i - 1 + r) % Len(s)) + 1]]

Rectangles ==
  UNION {{Rotated(R, r), Rotated(Reversed(R), r)} :
           R \in {Rectangle(x0, y0, x1, y1) :
                    x0 \in 0..RectSize, y0 \in 0..RectSize,
                    x1 \in 0..RectSize, y1 \in 0..RectSize},
           r \in 0..3}

ProperRectangles == {R \in Rectangles : R[1] # R[3] /\ R[1][1] # R[3][1] /\ R[1][2] # R[3][2]}

\* points on the half steps from -1/2 to RectSize + 1/2
HalfStepPoints ==
  {<<Rat(i, 2), Rat(j, 2)>> : i \in (0 - 1)..(2 * RectSize + 1), j \in (0 - 1)..(2 * RectSize + 1)}

\* the arguments of a call of pointInBoundingBox
BoxQueries == [bl : BoxPoints, tr : BoxPoints, p : BoxPoints]

\* the arguments of a call of one of the polygon tests
PolygonQueries ==
  [point : GridPoints \cup CellCentres, polygon : GridPolygons]
    \cup [point : HalfStepPoints, polygon : ProperRectangles]

\* The point tests are pure: a behaviour is one call, whose arguments are
\* drawn at the start and whose result is stored by the call.
CallPointInBoundingBox ==
  /\ called = "none" /\ args \in BoxQueries
  /\ Reading("pointInBoundingBox", Bool(pointInBoundingBox(args.bl, args.tr, args.p)))
  /\ UNCHANGED args

CallPointInPolyWindingNumber ==
  /\ called = "none" /\ args \in PolygonQueries
  /\ Reading("pointInPolyWindingNumber",
             Bool(pointInPolyWindingNumber(args.point, args.polygon)))
  /\ UNCHANGED args

CallPointInPolyRaycast ==
  /\ called = "none" /\ args \in PolygonQueries
  /\ Reading("pointInPolyRaycast", Bool(pointInPolyRaycast(args.point, args.polygon)))
  /\ UNCHANGED args

InitGeometry ==
  /\ arr = <<>> /\ arr2 = <<>>
  /\ called = "none" /\ result = Undefined
  /\ Untouched
  /\ args \in BoxQueries \cup PolygonQueries

NextGeometry ==
  \/ CallPointInBoundingBox
  \/ CallPointInPolyWindingNumber
  \/ CallPointInPolyRaycast

SpecGeometry == InitGeometry /\ [][NextGeometry]_vars

(***************************************************************************)
(* The claims about the point tests, under SpecGeometry.                   *)
(***************************************************************************)

\* the longitudes of the box from west to east, across the antimeridian when
\* east < west
InLongitudeBand(west, east, lon) ==
  IF Less(east, west)
  THEN ~(Less(east, lon) /\ Less(lon, west))
  ELSE ~(Less(lon, west) \/ Less(east, lon))

\* C11: pointInBoundingBox(bl, tr, p) is true exactly when bl.lat <= p.lat <=
\* tr.lat and p.lon passes the longitude test, an OR of the two comparisons
\* when tr.lon < bl.lon and an AND otherwise; with bl = [170,-10] and
\* tr = [-170,10] the point [175,0] is inside and [0,0] is outside.
C11_BoundingBoxAntimeridian ==
  called = "pointInBoundingBox" =>
    /\ result.b = (/\ LessEq(args.bl[2], args.p[2])
                   /\ LessEq(args.p[2], args.tr[2])
                   /\ InLongitudeBand(args.bl[1], args.tr[1], args.p[1]))
    /\ (args.bl = <<V(170), V(0 - 10)>> /\ args.tr = <<V(0 - 170), V(10)>>) =>
         /\ args.p = <<V(175), V(0)>> => result.b
         /\ args.p = <<V(0), V(0)>> => ~result.b

\* the documented antimeridian box was asked about the point [175, 0]
C11_Witness ==
  /\ called = "pointInBoundingBox"
  /\ args.bl = <<V(170), V(0 - 10)>> /\ args.tr = <<V(0 - 170), V(10)>>
  /\ args.p = <<V(175), V(0)>>
  /\ result = Bool(TRUE)

\* the smallest and the largest coordinate c (1: x, 2: y) of the vertices
Lowest(polygon, c) ==
  CHOOSE v \in {polygon[i][c] : i \in 1..Len(polygon)} :
    \A i \in 1..Len(polygon) : LessEq(v, polygon[i][c])

Highest(polygon, c) ==
  CHOOSE v \in {polygon[i][c] : i \in 1..Len(polygon)} :
    \A i \in 1..Len(polygon) : LessEq(polygon[i][c], v)

\* four vertices, each edge along an axis, the corners of a box of positive area
IsRectangle(polygon) ==
  /\ Len(polygon) = 4
  /\ Less(Lowest(polygon, 1), Highest(polygon, 1))
  /\ Less(Lowest(polygon, 2), Highest(polygon, 2))
  /\ {polygon[i] : i \in 1..4}
       = {Lowest(polygon, 1), Highest(polygon, 1)} \X {Lowest(polygon, 2), Highest(polygon, 2)}
  /\ \A i \in 1..4 :
       LET next == polygon[(i % 4) + 1]
       IN (polygon[i][1] = next[1]) # (polygon[i][2] = next[2])

StrictlyInside(point, polygon) ==
  /\ Less(Lowest(polygon, 1), point[1]) /\ Less(point[1], Highest(polygon, 1))
  /\ Less(Lowest(polygon, 2), point[2]) /\ Less(point[2], Highest(polygon, 2))

StrictlyOutside(point, polygon) ==
  \/ Less(point[1], Lowest(polygon, 1)) \/ Less(Highest(polygon, 1), point[1])
  \/ Less(point[2], Lowest(polygon, 2)) \/ Less(Highest(polygon, 2), point[2])

UnitSquare == <<<<V(0), V(0)>>, <<V(1), V(0)>>, <<V(1), V(1)>>, <<V(0), V(1)>>>>

\* C12: for a rectangle along the axes, listed in either orientation,
\* pointInPolyWindingNumber is true for every point strictly inside and false
\* for every point strictly outside (the winding number is 1 or -1 inside and
\* 0 outside), and it is false for the empty polygon.
C12_WindingNumberOfRectangle ==
  called = "pointInPolyWindingNumber" =>
    /\ args.polygon = <<>> => ~result.b
    /\ IsRectangle(args.polygon) =>
         /\ StrictlyInside(args.point, args.polygon) => result.b
         /\ StrictlyOutside(args.point, args.polygon) => ~result.b

\* the centre of the unit square, listed clockwise, was found inside
C12_Witness ==
  /\ called = "pointInPolyWindingNumber"
  /\ args.polygon = Reversed(UnitSquare)
  /\ args.point = <<Rat(1, 2), Rat(1, 2)>>
  /\ result = Bool(TRUE)

\* polygon with its first vertex listed again at the end
Closed(polygon) == Append(polygon, polygon[1])

\* C13: for a non-empty polygon, pointInPolyWindingNumber and
\* pointInPolyRaycast return for the polygon what they return for the polygon
\* with its first vertex repeated as its last.
C13_ClosureIsSynthesized ==
  /\ (called = "pointInPolyWindingNumber" /\ args.polygon # <<>>) =>
       result.b = pointInPolyWindingNumber(args.point, Closed(args.polygon))
  /\ (called = "pointInPolyRaycast" /\ args.polygon # <<>>) =>
       result.b = pointInPolyRaycast(args.point, Closed(args.polygon))

\* the ray cast found a point inside a polygon that does not repeat its
\* first vertex
C13_Witness ==
  /\ called = "pointInPolyRaycast"
  /\ Len(args.polygon) >= 3
  /\ args.polygon[Len(args.polygon)] # args.polygon[1]
  /\ result = Bool(TRUE)

(***************************************************************************)
(* The claims about zScoreToPvalue, under SpecPvalue.                      *)
(***************************************************************************)

\* C15: zScoreToPvalue(z) returns exactly 0 for every z < -6.5 and exactly 1
\* for every z > 6.5, without evaluating the series: the call assigns neither
\* term nor k.
C15_ClampedBeyondSixAndAHalf ==
  [][called' = "zScoreToPvalue" =>
       /\ Less(args'.z, Rat(0 - 13, 2)) => (result' = V(0) /\ global' = global)
       /\ Less(Rat(13, 2), args'.z) => (result' = V(1) /\ global' = global)]_vars

\* a call with z < -6.5 returned 0 after an earlier call had run the series
C15_Witness ==
  /\ called = "zScoreToPvalue"
  /\ Less(args.z, Rat(0 - 13, 2))
  /\ result = V(0)
  /\ global # NoGlobals

\* |x| of a number
AbsValue(x) == IF Less(x, V(0)) THEN Neg(x) ELSE x

\* The polynomials of pvalueToZscore are carried to 1/Scale: a round trip of
\* the model is within 1/50 where the round trip of the code is within 1e-6.
RoundTripTolerance == Rat(1, 50)

\* C17: for z in {-2, -1, 0, 1, 2}, pvalueToZscore(zScoreToPvalue(z)) returns
\* a number that is z within the tolerance.
C17_RoundTrip ==
  [][(/\ called = "zScoreToPvalue" /\ args.z \in {V(i) : i \in (0 - 2)..2}
      /\ called' = "pvalueToZscore" /\ args'.p = result)
       => (/\ IsNum(result')
           /\ LessEq(AbsValue(Sub(result', args.z)), RoundTripTolerance))]_vars

\* C18: no call touches shared state: every variable outside the call has
\* the value after the call that it had before, and what zScoreToPvalue
\* returns is determined by its argument.
C18_NoSharedState ==
  [][/\ global' = global
     /\ called' = "zScoreToPvalue" =>
          \E call \in zScoreToPvalueCalls :
            call.z = args'.z /\ result' = call.does.value]_vars

(***************************************************************************)
(* src/sorting.js: sum and mean on arrays of doubles.  A positive double   *)
(* is [hi, lo, e]: the number (hi * Limb + lo) * 2^e, whose significand of *)
(* 53 bits is held in two words, 2^26 <= hi < 2^27 and 0 <= lo < 2^26;     *)
(* zero has hi = lo = 0.  Sums and quotients are rounded to nearest, ties  *)
(* to even, as IEEE 754 rounds them.  Negative numbers, subnormals and     *)
(* overflow are not modelled.                                              *)
(***************************************************************************)
Limb == 2^26

Dbl(hi, lo, e) == [k |-> "double", hi |-> hi, lo |-> lo, e |-> e]

DblZero == Dbl(0, 0, 0)

\* The double nearest to (hi * Limb + lo + x / Limb) * 2^e, plus a little
\* more when st = 1, for 2^22 <= hi < 2^31: the words are shifted until hi
\* has 27 bits and the bits shifted out decide the rounding.
DblRound(hi, lo, x, e, st) ==
  IF hi = 0 /\ lo = 0 /\ x = 0 THEN DblZero
  ELSE LET s == BitLen(hi) - 27
           h == IF s >= 0 THEN hi \div 2^s
                ELSE hi * 2^(0 - s) + lo \div 2^(26 + s)
           l == IF s >= 0 THEN (hi % 2^s) * 2^(26 - s) + lo \div 2^s
                ELSE (lo % 2^(26 + s)) * 2^(0 - s) + x \div 2^(26 + s)
           tail == IF s >= 0 THEN (lo % 2^s) * Limb + x ELSE x % 2^(26 + s)
           half == 2^(25 + s)
           up == tail > half \/ (tail = half /\ (st = 1 \/ l % 2 = 1))
           l1 == IF up THEN l + 1 ELSE l
           h1 == IF l1 = Limb THEN h + 1 ELSE h
       IN IF h1 = 2 * Limb THEN Dbl(Limb, 0, e + s + 1)
          ELSE Dbl(h1, l1 % Limb, e + s)

\* the integer i as a double, for 0 <= i < 2^10
DblInt(i) == DblRound(i * 2^20, 0, 0, 0 - 46, 0)

\* the three words w shifted right by d <= 26 bits; st remembers a bit lost
ShiftRightWithin(w, d) ==
  [hi |-> w.hi \div 2^d,
   lo |-> (w.hi % 2^d) * 2^(26 - d) + w.lo \div 2^d,
   x |-> (w.lo % 2^d) * 2^(26 - d) + w.x \div 2^d,
   st |-> IF w.x % 2^d # 0 THEN 1 ELSE w.st]

RECURSIVE ShiftRight(_, _)
ShiftRight(w, d) ==
  IF d > 26 THEN ShiftRight(ShiftRightWithin(w, 26), d - 26)
  ELSE ShiftRightWithin(w, d)

\* big + small for big.e >= small.e, neither zero
DblAddOrdered(big, small) ==
  LET sm == ShiftRight([hi |-> small.hi, lo |-> small.lo, x |-> 0, st |-> 0],
                       big.e - small.e)
      lows == big.lo + sm.lo
  IN DblRound(big.hi + sm.hi + lows \div Limb, lows % Limb, sm.x, big.e, sm.st)

\* a + b
DblAdd(a, b) ==
  IF a = DblZero THEN b
  ELSE IF b = DblZero THEN a
  ELSE IF a.e >= b.e THEN DblAddOrdered(a, b) ELSE DblAddOrdered(b, a)

\* a / n for an integer 0 < n < 32, by long division of the words
DblDivInt(a, n) ==
  LET rest1 == (a.hi % n) * Limb + a.lo
      rest2 == (rest1 % n) * Limb
  IN DblRound(a.hi \div n, rest1 \div n, rest2 \div n, a.e,
              IF rest2 % n # 0 THEN 1 ELSE 0)

\* a < b and a <= b
DblLess(a, b) ==
  IF b = DblZero THEN FALSE
  ELSE IF a = DblZero THEN TRUE
  ELSE \/ a.e < b.e
       \/ a.e = b.e /\ a.hi < b.hi
       \/ a.e = b.e /\ a.hi = b.hi /\ a.lo < b.lo

DblLessEq(a, b) == a = b \/ DblLess(a, b)

\* arr.reduce((a, b) => a + b, 0) over the first i elements
RECURSIVE sumOfDoublesUpTo(_, _)
sumOfDoublesUpTo(a, i) ==
  IF i = 0 THEN DblZero ELSE DblAdd(sumOfDoublesUpTo(a, i - 1), a[i])

\* sum on an array of doubles
sumOfDoubles(a) == sumOfDoublesUpTo(a, Len(a))

\* mean on an array of doubles: 0 / 0 is NaN
meanOfDoubles(a) ==
  IF Len(a) = 0 THEN NaN ELSE DblDivInt(sumOfDoubles(a), Len(a))

(***************************************************************************)
(* The calls of sum and mean on arrays of doubles.                         *)
(***************************************************************************)
\* the elements are the doubles of the literals 0.1, 0.2, ..., MaxTenth / 10
MaxTenth == 7
\* most elements of an array of doubles
MeanLen == 3

Tenths == {DblDivInt(DblInt(i), 10) : i \in 1..MaxTenth}

DoubleArrays == SeqsUpTo(Tenths, MeanLen)

CallSumOfDoubles == Reading("sum", sumOfDoubles(arr)) /\ args' = <<>>

CallMeanOfDoubles == Reading("mean", meanOfDoubles(arr)) /\ args' = <<>>

InitDoubles ==
  /\ arr \in DoubleArrays /\ arr2 = <<>>
  /\ NoCall /\ Untouched

NextDoubles == CallSumOfDoubles \/ CallMeanOfDoubles

SpecDoubles == InitDoubles /\ [][NextDoubles]_vars

\* C16: for a non-empty array S, min(S) <= mean(S) <= max(S), where mean(S)
\* is sum(S) / |S|, and the sum of the empty array is 0.
C16_MeanWithinMinAndMax ==
  /\ (called = "sum" /\ arr = <<>>) => result = DblZero
  /\ (called = "mean" /\ Len(arr) > 0) =>
       /\ result = DblDivInt(sumOfDoubles(arr), Len(arr))
       /\ \E i \in 1..Len(arr) : DblLessEq(arr[i], result)
       /\ \E i \in 1..Len(arr) : DblLessEq(result, arr[i])

(***************************************************************************)
(* src/objects.js: safeObject.  A string is [k, s], an array is [k, items] *)
(* and a function is known by its name.  An object is the record of its    *)
(* own properties (props: a function from their names to their values),    *)
(* of the names among them that are the accessor properties safeObject     *)
(* defines (guarded) with the schema and the arguments sealed and frozen    *)
(* that their setters close over, and of its attributes: whether it is     *)
(* extensible, and whether its properties are configurable and its data    *)
(* properties writable.  Type names in a schema are in lower case.         *)
(***************************************************************************)
Str(s) == [k |-> "string", s |-> s]

Arr(items) == [k |-> "array", items |-> items]

Fn(name) == [k |-> "function", name |-> name]

Null == [k |-> "null", n |-> 0, d |-> 1]

\* the object literal { ...props }
Object(props) ==
  [k |-> "object", props |-> props, guarded |-> {}, schema |-> Undefined,
   sealed |-> FALSE, frozen |-> FALSE,
   extensible |-> TRUE, configurable |-> TRUE, writable |-> TRUE]

\* the property names that occur, in the order Object.keys lists them
KeyOrder == <<"name", "age", "list", "o", "x", "y", "baz">>

keys(o) == SelectSeq(KeyOrder, LAMBDA key : key \in DOMAIN o.props)

\* o[key]: undefined when o has no such property
Read(o, key) == IF key \in DOMAIN o.props THEN o.props[key] ELSE Undefined

type(v) == IF v.k \in {"num", "nan", "inf", "double"} THEN "number" ELSE v.k

isObj(v) == type(v) = "object"

\* The validator functions of the documented schema, applied to val:
\*   over17:      val => typeof val === 'number' && val > 17
\*   numbersOnly: arr => arr.every(val => typeof val === 'number'), which
\*                throws a TypeError when arr has no method every
Validator(name, val) ==
  IF name = "over17"
  THEN IF type(val) = "number" /\ Less(V(17), val) THEN "true" ELSE "false"
  ELSE IF val.k # "array" THEN "TypeError"
  ELSE IF \A i \in 1..Len(val.items) : type(val.items[i]) = "number"
       THEN "true" ELSE "false"

\* what validationErrors returns: the array errs, or the exception thrown
Errors(errs) == [errs |-> errs, thrown |-> Undefined]

\* errs.push({ key, expected }) onto the empty array
Pushed(key, expected) == Errors(<<[key |-> key, expected |-> expected]>>)

\* the custom validator's verdict on the value of key
Custom(key, verdict) ==
  [true |-> Errors(<<>>), false |-> Pushed(key, "custom validation"),
   TypeError |-> [errs |-> <<>>, thrown |-> Throw("TypeError")]][verdict]

\* the errors of one entry followed by those of the entries after it: an
\* exception ends the forEach
Spread(here, rest) ==
  IF here.thrown # Undefined THEN here
  ELSE IF rest.thrown # Undefined THEN rest
  ELSE Errors(here.errs \o rest.errs)

RECURSIVE validationErrors(_, _)
RECURSIVE validationErrorsOver(_, _, _)

\* the body of the forEach for the entry [key, expectedType] of the schema
validationErrorsAt(val, key, expectedType) ==
  IF expectedType.k = "function" THEN
    Custom(key, Validator(expectedType.name, val))
  ELSE IF isObj(expectedType) THEN
    IF ~isObj(val) THEN Pushed(key, "object")
    ELSE validationErrors(val, expectedType)
  ELSE IF expectedType = Str("array") THEN
    IF type(val) # "array" THEN Pushed(key, "array") ELSE Errors(<<>>)
  ELSE IF expectedType.k = "string" THEN
    IF type(val) # expectedType.s THEN Pushed(key, expectedType.s)
    ELSE Errors(<<>>)
  ELSE Errors(<<>>)

\* the forEach over the entries named by ks
validationErrorsOver(o, schema, ks) ==
  IF ks = <<>> THEN Errors(<<>>)
  ELSE Spread(validationErrorsAt(Read(o, Head(ks)), Head(ks),
                                 schema.props[Head(ks)]),
              validationErrorsOver(o, schema, Tail(ks)))

validationErrors(o, schema) ==
  IF schema = Undefined THEN Errors(<<>>)
  ELSE validationErrorsOver(o, schema, keys(schema))

\* what getErrorMsg makes of errs: null when there is none, the message
\* (known by the key it names) when there is one, or the exception that a
\* validator threw
Message(key, errs) ==
  IF errs.thrown # Undefined THEN errs.thrown
  ELSE IF Len(errs.errs) > 0 THEN Str(key)
  ELSE Null

\* getErrorMsg that finds every value valid
getErrorMsgNever(key, val, schemaProp) == Null

getErrorMsg(key, val, schemaProp) ==
  Message(key, validationErrors(Object([name \in {key} |-> val]),
                                Object([name \in {key} |-> schemaProp])))

\* Object.seal(o)
Seal(o) == [o EXCEPT !.extensible = FALSE, !.configurable = FALSE]

\* Object.freeze(o): o has neither a prototype property nor a prototype
freezeObject(o) ==
  [o EXCEPT !.extensible = FALSE, !.configurable = FALSE, !.writable = FALSE]

\* the first exception among the values stored for the keys ks, if any
FirstThrown(stored, ks) ==
  IF \E i \in 1..Len(ks) : IsThrow(stored[ks[i]])
  THEN stored[ks[CHOOSE i \in 1..Len(ks) :
                  /\ IsThrow(stored[ks[i]])
                  /\ \A j \in 1..(i - 1) : ~IsThrow(stored[ks[j]])]]
  ELSE Undefined

\* if (sealed) Object.seal(o); if (frozen) freezeObject(o)
Protected(o, sealed, frozen) ==
  IF frozen THEN freezeObject(IF sealed THEN Seal(o) ELSE o)
  ELSE IF sealed THEN Seal(o) ELSE o

\* the object with the accessor properties that hold the stored values,
\* sealed and frozen as asked, unless storing one of them threw
Guarded(stored, schema, sealed, frozen) ==
  IF FirstThrown(stored, keys(schema)) # Undefined
  THEN FirstThrown(stored, keys(schema))
  ELSE Protected([k |-> "object", props |-> stored,
                  guarded |-> DOMAIN schema.props, schema |-> schema,
                  sealed |-> sealed, frozen |-> frozen, extensible |-> TRUE,
                  configurable |-> TRUE, writable |-> TRUE],
                 sealed, frozen)

\* what validation makes of a value: the exception thrown for errMsg, or
\* the value to store (wrapped)
Checked(errMsg, wrapped) ==
  IF IsThrow(errMsg) THEN errMsg
  ELSE IF errMsg # Null THEN Throw("Error")
  ELSE wrapped

RECURSIVE safeObject(_, _, _, _)

\* the value stored for v under the schema entry schemaProp
Wrapped(v, schemaProp, sealed, frozen) ==
  IF isObj(v) /\ isObj(schemaProp)
  THEN safeObject(v, schemaProp, sealed, frozen)
  ELSE v

safeObject(data, schema, sealed, frozen) ==
  IF ~isObj(schema) THEN
    Protected([Object(data.props) EXCEPT !.sealed = sealed,
                                         !.frozen = frozen], FALSE, frozen)
  ELSE
    Guarded([key \in DOMAIN schema.props |->
               Checked(getErrorMsg(key, Read(data, key), schema.props[key]),
                       Wrapped(Read(data, key), schema.props[key],
                               sealed, frozen))],
            schema, sealed, frozen)

\* what an assignment or a delete leaves: the object and the exception thrown
Done(o) == [o |-> o, thrown |-> Undefined]

Failed(o, err) == [o |-> o, thrown |-> Throw(err)]

\* o with the property key holding v
WithProperty(o, key, v) ==
  [o EXCEPT !.props = [name \in DOMAIN o.props \cup {key} |->
                         IF name = key THEN v ELSE o.props[name]]]

\* what the setter of key leaves of o: checked is the exception it threw or
\* the value it stores
Set(o, key, checked) ==
  IF IsThrow(checked) THEN [o |-> o, thrown |-> checked]
  ELSE Done(WithProperty(o, key, checked))

\* The assignment o[key] = newVal.  On an accessor property it calls the
\* setter that safeObject defined, whatever the attributes of o.  On a data
\* property that is not writable, or on a missing property of an object that
\* is not extensible, it is ignored in sloppy code and throws a TypeError in
\* strict code.
Assign(o, key, newVal, strict) ==
  IF key \in o.guarded THEN
    Set(o, key,
        Checked(getErrorMsg(key, newVal, o.schema.props[key]),
                Wrapped(newVal, o.schema.props[key], o.sealed, o.frozen)))
  ELSE IF (key \in DOMAIN o.props /\ o.writable)
            \/ (key \notin DOMAIN o.props /\ o.extensible)
  THEN Done(WithProperty(o, key, newVal))
  ELSE IF strict THEN Failed(o, "TypeError") ELSE Done(o)

\* delete o[key]
Delete(o, key, strict) ==
  IF key \notin DOMAIN o.props THEN Done(o)
  ELSE IF o.configurable
  THEN Done([o EXCEPT !.props = [name \in DOMAIN o.props \ {key} |->
                                   o.props[name]],
                      !.guarded = o.guarded \ {key}])
  ELSE IF strict THEN Failed(o, "TypeError") ELSE Done(o)

(***************************************************************************)
(* The calls of safeObject and the uses of the object it returned.         *)
(***************************************************************************)
\* the documented schema, with a nested schema added
TheSchema ==
  Object([name |-> Str("string"), age |-> Fn("over17"),
          list |-> Fn("numbersOnly"), o |-> Object([x |-> Str("number")])])

Bob ==
  Object([name |-> Str("bob"), age |-> V(20), list |-> Arr(<<V(1)>>),
          o |-> Object([x |-> V(1)])])

\* an object that fails the schema: age is not over 17
Minor == [Bob EXCEPT !.props.age = V(5)]

\* an object with properties that the schema does not name
BobAndMore ==
  [Bob EXCEPT !.props = [name |-> Str("bob"), age |-> V(20), list |-> Arr(<<V(1)>>),
                         o |-> Object([x |-> V(1), y |-> V(5)]), baz |-> V(5)]]

\* the calls of safeObject that are made: with the schema, and without one
\* with sealed left at its default
SafeObjectCalls ==
  [data : {Bob, Minor, BobAndMore, Object(<<>>)}, schema : {TheSchema},
   sealed : BOOLEAN, frozen : BOOLEAN]
    \cup [data : {Bob, Object(<<>>)}, schema : {Undefined},
          sealed : {TRUE}, frozen : BOOLEAN]

\* the values assigned to the properties age and o
Values ==
  {Str("bob"), V(20), V(5), Undefined,
   Object([x |-> V(20), y |-> V(5)]), Object([x |-> Str("bob")])}

\* the assignments myObj[key] = v that are made
Assignments ==
  [key : {"age", "o"}, v : Values]
    \cup {[key |-> "list", v |-> V(5)], [key |-> "list", v |-> Arr(<<V(5)>>)],
          [key |-> "baz", v |-> V(5)]}

NestedValues == {V(5), Str("bob")}

DeletedKeys == {"age", "baz"}

\* myObj = safeObject(data, schema, sealed, frozen)
CallSafeObject(data, schema, sealed, frozen) ==
  /\ myObj = Undefined
  /\ result' = safeObject(data, schema, sealed, frozen)
  /\ myObj' = IF IsThrow(result') THEN myObj ELSE result'
  /\ called' = "safeObject"
  /\ args' = [data |-> data, schema |-> schema, sealed |-> sealed,
              frozen |-> frozen]
  /\ UNCHANGED <<arr, arr2, global, heap, func, memory, invoked, locals>>

\* myObj[key] = v
AssignProperty(key, v, strict) ==
  /\ isObj(myObj)
  /\ \E done \in {Assign(myObj, key, v, strict)} :
     /\ myObj' = done.o
     /\ result' = done.thrown
     /\ called' = "assign"
     /\ args' = [key |-> key, v |-> v]
     /\ UNCHANGED <<arr, arr2, global, heap, func, memory, invoked, locals>>

\* myObj.o.x = v: the object that myObj.o returns is assigned to
AssignNested(v, strict) ==
  /\ isObj(myObj) /\ isObj(Read(myObj, "o"))
  /\ \E done \in {Assign(Read(myObj, "o"), "x", v, strict)} :
     /\ myObj' = [myObj EXCEPT !.props.o = done.o]
     /\ result' = done.thrown
     /\ called' = "assign nested"
     /\ args' = [key |-> "x", v |-> v]
     /\ UNCHANGED <<arr, arr2, global, heap, func, memory, invoked, locals>>

\* delete myObj[key]
DeleteProperty(key, strict) ==
  /\ isObj(myObj)
  /\ \E done \in {Delete(myObj, key, strict)} :
     /\ myObj' = done.o
     /\ result' = done.thrown
     /\ called' = "delete"
     /\ args' = [key |-> key]
     /\ UNCHANGED <<arr, arr2, global, heap, func, memory, invoked, locals>>

InitObjects ==
  arr = <<>> /\ arr2 = <<>> /\ NoCall /\ Untouched

NextObjects ==
  \/ \E call \in SafeObjectCalls :
       CallSafeObject(call.data, call.schema, call.sealed, call.frozen)
  \/ \E assignment \in Assignments, strict \in BOOLEAN :
       AssignProperty(assignment.key, assignment.v, strict)
  \/ \E v \in NestedValues, strict \in BOOLEAN : AssignNested(v, strict)
  \/ \E key \in DeletedKeys, strict \in BOOLEAN : DeleteProperty(key, strict)

SpecObjects == InitObjects /\ [][NextObjects]_vars

(***************************************************************************)
(* What safeObject promises of the object it returns.                      *)
(***************************************************************************)
\* o was returned by a call of safeObject with an object schema that left
\* sealed and frozen at their defaults
Default(o) == isObj(o) /\ isObj(o.schema) /\ o.sealed /\ ~o.frozen

\* the own properties of a value read one by one, whatever guards them (the
\* values assigned here nest no deeper than one object)
Plain(v) == IF isObj(v) THEN Object(v.props) ELSE v

\* v as its schema entry keeps it: of an object under a nested schema, the
\* properties that the nested schema names
Kept(v, schemaProp) ==
  IF isObj(v) /\ isObj(schemaProp)
  THEN Object([name \in DOMAIN schemaProp.props |-> Read(v, name)])
  ELSE v

RECURSIVE Satisfies(_, _)
\* val satisfies the schema entry schemaProp
Satisfies(val, schemaProp) ==
  IF schemaProp.k = "function"
  THEN Validator(schemaProp.name, val) = "true"
  ELSE IF isObj(schemaProp)
  THEN /\ isObj(val)
       /\ \A name \in DOMAIN schemaProp.props :
            Satisfies(Read(val, name), schemaProp.props[name])
  ELSE IF schemaProp.k = "string" THEN type(val) = schemaProp.s
  ELSE TRUE

\* this step is myObj[key] = v for a key of the schema of a default myObj
SchemaAssignment ==
  /\ called' = "assign"
  /\ Default(myObj)
  /\ args'.key \in DOMAIN myObj.schema.props

\* this step changed no property of myObj but, perhaps, key
OthersUnchanged(key) ==
  /\ DOMAIN myObj'.props = DOMAIN myObj.props
  /\ \A name \in DOMAIN myObj.props \ {key} :
       myObj'.props[name] = myObj.props[name]

\* C19 as stated: an assignment myObj[k] = v to a schema key of an object
\* that safeObject(data, schema) returned either passes validation, and then
\* myObj[k] reads back v, or throws and changes no property; and every
\* property of myObj satisfies its schema entry after every step.
C19_ReadsBackTheValue ==
  [][/\ Default(myObj') =>
          \A key \in DOMAIN myObj'.schema.props :
            Satisfies(Read(myObj', key), myObj'.schema.props[key])
     /\ SchemaAssignment =>
          IF Satisfies(args'.v, myObj.schema.props[args'.key])
          THEN /\ result' = Undefined
               /\ Plain(Read(myObj', args'.key)) = Plain(args'.v)
          ELSE IsThrow(result') /\ myObj' = myObj]_vars

\* C19 amended: an assignment myObj[k] = v to a schema key of an object that
\* safeObject(data, schema) returned either passes validation, and then
\* myObj[k] reads back v, or, when v is an object and schema[k] a nested
\* schema, an object that holds v's values of exactly the properties that
\* schema[k] names, while no other property changes; or it throws and
\* changes no property.  Every property of myObj satisfies its schema entry
\* after every step.
C19_ValidOrThrown ==
  [][/\ Default(myObj') =>
          \A key \in DOMAIN myObj'.schema.props :
            Satisfies(Read(myObj', key), myObj'.schema.props[key])
     /\ SchemaAssignment =>
          IF Satisfies(args'.v, myObj.schema.props[args'.key])
          THEN /\ result' = Undefined
               /\ Plain(Read(myObj', args'.key))
                    = Kept(args'.v, myObj.schema.props[args'.key])
               /\ OthersUnchanged(args'.key)
          ELSE IsThrow(result') /\ myObj' = myObj]_vars

\* myObj.o = { x: 20, y: 5 } passed validation, and myObj.o reads { x: 20 }
C19_Witness ==
  /\ called = "assign"
  /\ args = [key |-> "o", v |-> Object([x |-> V(20), y |-> V(5)])]
  /\ result = Undefined
  /\ Default(myObj)
  /\ Plain(Read(myObj, "o")) = Object([x |-> V(20)])

\* C20: an object that safeObject returned with sealed left at true, with a
\* schema or without one, keeps its set of property names through every
\* assignment and every deletion.
C20_SealedByDefault ==
  [][(isObj(myObj) /\ myObj.sealed) =>
       /\ isObj(myObj')
       /\ DOMAIN myObj'.props = DOMAIN myObj.props]_vars

\* C21: an object that safeObject returned with frozen = true cannot be
\* changed at all: through every assignment myObj[key] = v, also of a value
\* that is valid for a key of the schema, every property of myObj reads back
\* the value it had, and no property is added.
C21_FrozenCannotChange ==
  [][(isObj(myObj) /\ myObj.frozen /\ called' = "assign") =>
       /\ DOMAIN myObj'.props = DOMAIN myObj.props
       /\ \A name \in DOMAIN myObj.props :
            Read(myObj', name) = Read(myObj, name)]_vars

(***************************************************************************)
(* src/objects.js: mergeObject.  Objects and arrays are cells of the heap, *)
(* a sequence indexed by address; a value is a number or a reference       *)
(* Ref(at) to a cell, so that two properties can hold the same object and  *)
(* an object can hold itself.  A cell is Object(props) or Arr(items).  The *)
(* call is run to its end on a record m of the heap, the stack, the map    *)
(* seen and the number of rounds of the while loop made so far.            *)
(***************************************************************************)
Ref(at) == [k |-> "ref", at |-> at]

\* val && typeof val === 'object' && !Array.isArray(val)
isObject(cells, val) == val.k = "ref" /\ cells[val.at].k = "object"

isArray(cells, val) == val.k = "ref" /\ cells[val.at].k = "array"

\* the rounds of the while loop after which a call is given up as endless
MaxPops == 12

\* m after a new cell is made; its address is Len(m.heap) + 1 before that
Alloc(m, cell) == [m EXCEPT !.heap = Append(@, cell)]

\* t[key] = v
Store(m, t, key, v) == [m EXCEPT !.heap[t] = WithProperty(@, key, v)]

\* t[key] = <a new cell>
StoreNew(m, t, key, cell) ==
  Store(Alloc(m, cell), t, key, Ref(Len(m.heap) + 1))

\* stack.push({ t: t[key], s: sVal }) for the cell just made
PushNew(m, s) ==
  [m EXCEPT !.stack = Append(@, [t |-> Len(m.heap), s |-> s])]

\* { ...val }
Clone(cells, val) == Object(cells[val.at].props)

\* tVal.concat(sVal) or [...sVal]
Concat(cells, tVal, sVal) ==
  IF isArray(cells, tVal)
  THEN Arr(cells[tVal.at].items \o cells[sVal.at].items)
  ELSE Arr(cells[sVal.at].items)

\* the body of the for-in loop whose merge of two objects writes into the
\* object that t[key] holds already, without cloning it
mergeKeyInPlace(m, t, s, key) ==
  IF isObject(m.heap, m.heap[s].props[key]) THEN
    IF ~isObject(m.heap, Read(m.heap[t], key))
    THEN StoreNew(m, t, key, Clone(m.heap, m.heap[s].props[key]))
    ELSE [m EXCEPT !.stack = Append(@, [t |-> Read(m.heap[t], key).at,
                                         s |-> m.heap[s].props[key].at])]
  ELSE IF isArray(m.heap, m.heap[s].props[key])
  THEN StoreNew(m, t, key, Concat(m.heap, Read(m.heap[t], key),
                                  m.heap[s].props[key]))
  ELSE Store(m, t, key, m.heap[s].props[key])

\* the body of the for-in loop for one own key of s
mergeKey(m, t, s, key) ==
  IF isObject(m.heap, m.heap[s].props[key]) THEN
    IF ~isObject(m.heap, Read(m.heap[t], key))
    THEN StoreNew(m, t, key, Clone(m.heap, m.heap[s].props[key]))
    ELSE PushNew(StoreNew(m, t, key, Clone(m.heap, Read(m.heap[t], key))),
                 m.heap[s].props[key].at)
  ELSE IF isArray(m.heap, m.heap[s].props[key])
  THEN StoreNew(m, t, key, Concat(m.heap, Read(m.heap[t], key),
                                  m.heap[s].props[key]))
  ELSE Store(m, t, key, m.heap[s].props[key])

\* the for-in loop over the keys ks of s
RECURSIVE mergeKeys(_, _, _, _)
mergeKeys(m, t, s, ks) ==
  IF ks = <<>> THEN m
  ELSE mergeKeys(mergeKey(m, t, s, Head(ks)), t, s, Tail(ks))

\* const { t, s } = stack.pop()
Popped(m) ==
  [m EXCEPT !.stack = SubSeq(@, 1, Len(@) - 1), !.pops = @ + 1]

\* seen.set(s, t)
Seen(m, s, t) ==
  [m EXCEPT !.seen = [at \in DOMAIN m.seen \cup {s} |->
                        IF at = s THEN t ELSE m.seen[at]]]

\* a round that does not look s up in seen
mergeRoundUnseen(m, top) ==
  mergeKeys(Seen(m, top.s, top.t), top.t, top.s, keys(m.heap[top.s]))

\* one round of the while loop with the entry top popped from the stack
mergeRound(m, top) ==
  IF top.s \in DOMAIN m.seen THEN m
  ELSE mergeKeys(Seen(m, top.s, top.t), top.t, top.s, keys(m.heap[top.s]))

\* while (stack.length > 0)
RECURSIVE mergeWhile(_)
mergeWhile(m) ==
  IF m.stack = <<>> \/ m.pops >= MaxPops THEN m
  ELSE mergeWhile(mergeRound(Popped(m), m.stack[Len(m.stack)]))

\* for (const source of remaining), with the sources from index i on
RECURSIVE mergeFor(_, _, _, _)
mergeFor(m, target, sources, i) ==
  IF i > Len(sources) \/ m.stack # <<>> THEN m
  ELSE IF ~isObject(m.heap, sources[i])
  THEN mergeFor(m, target, sources, i + 1)
  ELSE mergeFor(mergeWhile([m EXCEPT !.stack = <<[t |-> target,
                                                  s |-> sources[i].at]>>]),
                target, sources, i + 1)

\* what a call leaves: the heap, the value returned, and whether it returned
Merged(m, value) ==
  [heap |-> m.heap, value |-> value, returned |-> m.stack = <<>>,
   pops |-> m.pops]

\* the heap cells with nothing on the stack and nothing seen
Start(cells) == [heap |-> cells, stack |-> <<>>, seen |-> <<>>, pops |-> 0]

\* mergeObject(...sources) on the heap cells
mergeObject(cells, sources) ==
  IF Len(sources) = 0
  THEN Merged(Start(Append(cells, Object(<<>>))), Ref(Len(cells) + 1))
  ELSE IF Len(sources) = 1 THEN
    IF isObject(cells, sources[1])
    THEN Merged(Start(Append(cells, Clone(cells, sources[1]))),
                Ref(Len(cells) + 1))
    ELSE Merged(Start(cells), sources[1])
  ELSE
    Merged(mergeFor(Start(Append(cells,
                                 IF isObject(cells, sources[1])
                                 THEN Clone(cells, sources[1])
                                 ELSE Object(<<>>))),
                    Len(cells) + 1, sources, 2),
           Ref(Len(cells) + 1))

(***************************************************************************)
(* The calls of mergeObject.  Cells 1 and 2 are two source objects with    *)
(* the keys x and y, the cells after them are the objects and arrays that  *)
(* the sources hold: a property of a source is missing, a number, the      *)
(* source itself, or one of those cells; such a cell is an empty object,   *)
(* an object with a number or with itself under x, or an array.            *)
(***************************************************************************)
HeapSize == 4

\* what a property of the source at the address at holds
Held(at) == {V(at), Ref(at)} \cup {Ref(c) : c \in 3..HeapSize}

\* the cells that can lie at the address at
CellsAt(at) ==
  IF at <= 2
  THEN {Object(<<>>)}
         \cup {Object([name \in {"x"} |-> v]) : v \in Held(at)}
         \cup {Object([name \in {"y"} |-> v]) : v \in Held(at)}
         \cup {Object([x |-> v, y |-> w]) : v \in Held(at), w \in Held(at)}
  ELSE {Object(<<>>), Object([x |-> V(at)]), Object([x |-> Ref(at)]),
        Arr(<<V(at)>>)}

RECURSIVE HeapsUpTo(_)
HeapsUpTo(n) ==
  IF n = 0 THEN {<<>>}
  ELSE {Append(cells, cell) : cells \in HeapsUpTo(n - 1), cell \in CellsAt(n)}

Heaps == HeapsUpTo(HeapSize)

\* the argument lists: none, one source, two and three, and a list with a
\* source that is no object
SourceLists ==
  {<<>>, <<V(7)>>, <<Ref(1)>>, <<Ref(1), Ref(2)>>, <<Ref(1), V(7), Ref(2)>>,
   <<Ref(1), Ref(2), Ref(3)>>}

\* result = mergeObject(...sources); a call that does not end leaves no
\* result
CallMergeObject(sources) ==
  /\ called = "none"
  /\ \E does \in {mergeObject(heap, sources)} :
       /\ heap' = does.heap
       /\ result' = IF does.returned THEN does.value ELSE Undefined
       /\ called' = IF does.returned THEN "mergeObject" ELSE "mergeObject running"
  /\ args' = [sources |-> sources]
  /\ UNCHANGED <<arr, arr2, global, myObj, func, memory, invoked, locals>>

InitMerge ==
  /\ arr = <<>> /\ arr2 = <<>> /\ NoCall
  /\ global = NoGlobals /\ myObj = Undefined
  /\ func = Undefined /\ memory = <<>> /\ invoked = <<>> /\ locals = Undefined
  /\ heap \in Heaps

NextMerge == \E sources \in SourceLists : CallMergeObject(sources)

SpecMerge == InitMerge /\ [][NextMerge]_vars

\* C22: mergeObject mutates none of its arguments: every cell that was on
\* the heap before the call (the sources and all they reach among them) has
\* the same keys and values after it; what the call makes is new.
C22_SourcesNotMutated ==
  [][called' \in {"mergeObject", "mergeObject running"} =>
       /\ Len(heap') >= Len(heap)
       /\ \A at \in 1..Len(heap) : heap'[at] = heap[at]]_vars

\* { x: {} } and { x: { x: 4 } } were merged: the result holds 4 at x.x and
\* the object that the first source holds at x is still empty
C22_Witness ==
  /\ called = "mergeObject"
  /\ args.sources = <<Ref(1), Ref(2)>>
  /\ heap[1] = Object([name \in {"x"} |-> Ref(3)])
  /\ heap[2] = Object([name \in {"x"} |-> Ref(4)])
  /\ heap[3] = Object(<<>>)
  /\ heap[4] = Object([name \in {"x"} |-> V(4)])
  /\ isObject(heap, Read(heap[result.at], "x"))
  /\ Read(heap[Read(heap[result.at], "x").at], "x") = V(4)

\* the longest key path looked at
MaxPath == 2

Paths == UNION {[1..n -> {"x", "y"}] : n \in 1..MaxPath}

\* the value that the key path leads to from v through plain objects, or
\* undefined when it leads nowhere
RECURSIVE At(_, _, _)
At(cells, v, path) ==
  IF path = <<>> THEN v
  ELSE IF isObject(cells, v) /\ Head(path) \in DOMAIN cells[v.at].props
  THEN At(cells, cells[v.at].props[Head(path)], Tail(path))
  ELSE Undefined

\* the source holds a number at the path
LeadsToPrimitive(cells, source, path) == At(cells, source, path).k = "num"

\* the source neither defines the path nor puts something that is no plain
\* object on the way to it
LeavesAlone(cells, source, path) ==
  /\ At(cells, source, path) = Undefined
  /\ \A n \in 1..(Len(path) - 1) :
       \/ At(cells, source, SubSeq(path, 1, n)) = Undefined
       \/ isObject(cells, At(cells, source, SubSeq(path, 1, n)))

\* C23: mergeObject is a deep merge: where a key path leads to a primitive
\* value in a source and no later source defines the path (or replaces an
\* object on the way to it), the result holds that value at the path, also
\* when a nested object is referenced from several places in the sources.
C23_DeepMerge ==
  [][called' = "mergeObject" =>
       \A path \in Paths : \A i \in 1..Len(args'.sources) :
         (/\ LeadsToPrimitive(heap, args'.sources[i], path)
          /\ \A j \in (i + 1)..Len(args'.sources) :
               LeavesAlone(heap, args'.sources[j], path))
           => At(heap', result', path) = At(heap, args'.sources[i], path)]_vars

\* the number of own properties of the objects on the heap
Properties(cells) ==
  Cardinality({pair \in (1..Len(cells)) \X {"x", "y"} :
                 /\ cells[pair[1]].k = "object"
                 /\ pair[2] \in DOMAIN cells[pair[1]].props})

\* this step is a call of mergeObject, ended or not
MergeCall == called' \in {"mergeObject", "mergeObject running"}

\* C24 as stated: for every list of sources, also with reference cycles,
\* the call of mergeObject ends and returns an object.
C24_ReturnsAnObject ==
  [][MergeCall => (called' = "mergeObject" /\ result'.k = "ref")]_vars

\* C24 amended: for every list of sources, also with reference cycles, the
\* call of mergeObject ends, after no more rounds of its while loop than
\* there are sources and properties of objects on the heap; it returns an
\* object, except that a single source that is no object is returned as it
\* is.
C24_EndsOnCycles ==
  [][MergeCall =>
       /\ called' = "mergeObject"
       /\ mergeObject(heap, args'.sources).pops
            <= Len(args'.sources) + Properties(heap)
       /\ IF Len(args'.sources) = 1 /\ args'.sources[1].k # "ref"
          THEN result' = args'.sources[1]
          ELSE result'.k = "ref"]_vars

\* two sources that each hold themselves under x were merged
C24_Witness ==
  /\ called = "mergeObject"
  /\ args.sources = <<Ref(1), Ref(2)>>
  /\ Read(heap[1], "x") = Ref(1)
  /\ Read(heap[2], "x") = Ref(2)
  /\ isObject(heap, result)

(***************************************************************************)
(* src/sorting.js: sortOrder.  A sort function is known by the number it   *)
(* returns for the pair (a, b) at hand: sortFuncs is the sequence of those *)
(* numbers.                                                                *)
(***************************************************************************)
\* the for-of loop from the i-th sort function on, and the return after it:
\* res is declared by let inside the loop body, so the name read after the
\* loop is not bound (no file of src declares a global res)
RECURSIVE sortOrderFrom(_, _)
sortOrderFrom(sortFuncs, i) ==
  IF i > Len(sortFuncs) THEN Throw("ReferenceError")
  ELSE IF sortFuncs[i] # 0 THEN V(sortFuncs[i])
  ELSE sortOrderFrom(sortFuncs, i + 1)

\* sortOrder(...sortFuncs)(a, b)
sortOrder(sortFuncs) == sortOrderFrom(sortFuncs, 1)

\* at most MaxFuncs sort functions, which return numbers within MaxRes of 0
MaxFuncs == 3

MaxRes == 2

SortFuncs == UNION {[1..n -> (0 - MaxRes)..MaxRes] : n \in 0..MaxFuncs}

\* the comparator is pure: a behaviour is one call, on the sort functions
\* drawn at the start
CallSortOrder ==
  /\ called = "none" /\ args \in SortFuncs
  /\ Reading("sortOrder", sortOrder(args))
  /\ UNCHANGED args

InitSortOrder ==
  /\ arr = <<>> /\ arr2 = <<>>
  /\ called = "none" /\ result = Undefined
  /\ Untouched
  /\ args \in SortFuncs

NextSortOrder == CallSortOrder

SpecSortOrder == InitSortOrder /\ [][NextSortOrder]_vars

\* C25: the comparator that sortOrder(f1, ..., fn) returns gives, for a pair
\* (a, b), the first result among f1(a, b), ..., fn(a, b) that is not 0,
\* and 0 when every one of them is 0.
C25_FirstNonZero ==
  called = "sortOrder" =>
    IF \E i \in 1..Len(args) : args[i] # 0
    THEN \E i \in 1..Len(args) :
           /\ args[i] # 0
           /\ \A j \in 1..(i - 1) : args[j] = 0
           /\ result = V(args[i])
    ELSE result = V(0)

(***************************************************************************)
(* The calls of zScoreToPvalue over the whole range of its series: a       *)
(* behaviour is one call, on the z drawn at the start from the multiples   *)
(* of 1/SeriesGrid between -6.5 and 6.5.                                   *)
(***************************************************************************)
SeriesGrid == 4

SeriesValues ==
  {Rat(i, SeriesGrid) :
     i \in (0 - (13 * SeriesGrid) \div 2)..((13 * SeriesGrid) \div 2)}

CallSeries ==
  /\ called = "none" /\ args \in [z : SeriesValues]
  /\ \E does \in {zScoreToPvalue(args.z)} :
       /\ result' = does.value
       /\ global' = Assigned(does.writes)
  /\ called' = "zScoreToPvalue"
  /\ UNCHANGED <<arr, arr2, args, myObj, heap, func, memory, invoked, locals>>

InitSeries ==
  /\ arr = <<>> /\ arr2 = <<>>
  /\ called = "none" /\ result = Undefined
  /\ Untouched
  /\ args \in [z : SeriesValues]

NextSeries == CallSeries

SpecSeries == InitSeries /\ [][NextSeries]_vars

\* the rounds within which the loop ends for every z of the range
MaxRounds == 80

\* C26: for -6.5 <= z <= 6.5 the loop of zScoreToPvalue ends: after at least
\* one and at most MaxRounds rounds the magnitude of the term is exp(-23)
\* or less (term and k are what the call left in them); for z = 0 the first
\* term is 0, the loop makes one round and the result is exactly 0.5.
C26_SeriesTerminates ==
  called = "zScoreToPvalue" =>
    /\ global.k.k = "num"
    /\ global.k.n >= 1 /\ global.k.n <= MaxRounds
    /\ global.term.k = "float"
    /\ ~FlLess(loopStop, FlAbs([m |-> global.term.n, e |-> global.term.d]))
    /\ args.z = V(0) =>
         /\ global.k = V(1)
         /\ global.term = FlValue(FlInt(0))
         /\ result = Rat(1, 2)

\* zScoreToPvalue(6.5) has returned after more than one round
C26_Witness ==
  /\ called = "zScoreToPvalue"
  /\ args.z = Rat(13, 2)
  /\ global.k.n > 1
  /\ result.k = "num"

(***************************************************************************)
(* The two point-in-polygon tests on simple polygons.  The vertices are    *)
(* points of the grid 0..SimpleGrid by 0..2 and the points are the         *)
(* multiples of 1/2 within it, so that twice a coordinate is an integer.   *)
(***************************************************************************)
SimpleGrid == 2

\* twice the coordinate c of the point p
Twice(p, c) == (2 * p[c].n) \div p[c].d

\* the sign of the cross product of b - a and c - a: 1 when c is to the left
\* of the line from a to b, -1 to the right, 0 on it
Side(a, b, c) ==
  Sign((Twice(b, 1) - Twice(a, 1)) * (Twice(c, 2) - Twice(a, 2))
         - (Twice(c, 1) - Twice(a, 1)) * (Twice(b, 2) - Twice(a, 2)))

Between(u, v, w) == (u <= v /\ v <= w) \/ (w <= v /\ v <= u)

\* p lies on the segment from a to b
OnSegment(a, b, p) ==
  /\ Side(a, b, p) = 0
  /\ Between(Twice(a, 1), Twice(p, 1), Twice(b, 1))
  /\ Between(Twice(a, 2), Twice(p, 2), Twice(b, 2))

\* the segments from a to b and from c to d have a point in common
Meet(a, b, c, d) ==
  \/ Side(a, b, c) * Side(a, b, d) < 0 /\ Side(c, d, a) * Side(c, d, b) < 0
  \/ OnSegment(a, b, c) \/ OnSegment(a, b, d)
  \/ OnSegment(c, d, a) \/ OnSegment(c, d, b)

\* the vertex after the i-th, around the polygon
After(polygon, i) == polygon[(i % Len(polygon)) + 1]

\* at least three distinct vertices, and two edges meet only where one ends
\* and the next begins
Simple(polygon) ==
  /\ Len(polygon) >= 3
  /\ \A i, j \in 1..Len(polygon) : i # j => polygon[i] # polygon[j]
  /\ \A i \in 1..Len(polygon) :
       ~OnSegment(polygon[i], After(polygon, i),
                  After(polygon, (i % Len(polygon)) + 1))
       /\ ~OnSegment(After(polygon, i), After(polygon, (i % Len(polygon)) + 1),
                     polygon[i])
  /\ \A i, j \in 1..Len(polygon) :
       (i < j /\ j # i + 1 /\ ~(i = 1 /\ j = Len(polygon))) =>
         ~Meet(polygon[i], After(polygon, i), polygon[j], After(polygon, j))

OnBoundary(point, polygon) ==
  \E i \in 1..Len(polygon) : OnSegment(polygon[i], After(polygon, i), point)

\* the simple triangles and quadrilaterals of the grid
SimplePolygons ==
  {polygon \in UNION {[1..n -> {<<V(i), V(j)>> : i \in 0..SimpleGrid,
                                                  j \in 0..2}] :
                        n \in {3, 4}} :
     Simple(polygon)}

HalfPoints ==
  {<<Rat(i, 2), Rat(j, 2)>> : i \in 0..(2 * SimpleGrid), j \in 0..4}

SimpleQueries ==
  {query \in [point : HalfPoints, polygon : SimplePolygons] :
     ~OnBoundary(query.point, query.polygon)}

CallWindingNumberOfSimple ==
  /\ called = "none"
  /\ Reading("pointInPolyWindingNumber",
             Bool(pointInPolyWindingNumber(args.point, args.polygon)))
  /\ UNCHANGED args

CallRaycastOfSimple ==
  /\ called = "none"
  /\ Reading("pointInPolyRaycast",
             Bool(pointInPolyRaycast(args.point, args.polygon)))
  /\ UNCHANGED args

InitSimple ==
  /\ arr = <<>> /\ arr2 = <<>>
  /\ called = "none" /\ result = Undefined
  /\ Untouched
  /\ args \in SimpleQueries

NextSimple == CallWindingNumberOfSimple \/ CallRaycastOfSimple

SpecSimple == InitSimple /\ [][NextSimple]_vars

MaxNumber == 1

\* JSON.stringify of one item of an array: undefined, null, NaN, the
\* infinities and functions all become null
stringifyItem(v) ==
  CASE v.k = "num" /\ v.d = 1 -> ToString(v.n)
    [] v.k = "string" -> "\"" \o v.s \o "\""
    [] v.k = "boolean" -> IF v.b THEN "true" ELSE "false"
    [] OTHER -> "null"

RECURSIVE stringifyItems(_, _)
stringifyItems(items, i) ==
  IF i > Len(items) THEN ""
  ELSE (IF i > 1 THEN "," ELSE "") \o stringifyItem(items[i])
         \o stringifyItems(items, i + 1)

\* JSON.stringify([...args])
stringify(items) == "[" \o stringifyItems(items, 1) \o "]"

\* the deterministic functions given to memo:
\* x => x, (...a) => a.length, () => 7
Functions == {"x => x", "(...a) => a.length", "() => 7"}

\* func(...args)
CallFunc(f, a) ==
  CASE f = "x => x" -> IF Len(a) = 0 THEN Undefined ELSE a[1]
    [] f = "(...a) => a.length" -> V(Len(a))
    [] OTHER -> V(7)

\* memory.set(key, value)
MapSet(map, key, value) ==
  [h \in DOMAIN map \cup {key} |-> IF h = key THEN value ELSE map[h]]

JSValues ==
  {Undefined, Null, NaN, Str("1")} \cup {V(i) : i \in 0..MaxNumber}

ArgLists ==
  {<<>>} \cup {<<v>> : v \in JSValues}
         \cup {<<V(1), v>> : v \in {Undefined, Null}}

\* a call g(...a) of the function memo returned
Memoized(a) ==
  /\ func \in Functions
  /\ \E argHash \in {stringify(a)} :
       IF argHash \in DOMAIN memory
         THEN /\ result' = memory[argHash]
              /\ UNCHANGED <<memory, invoked>>
         ELSE \E r \in {CallFunc(func, a)} :
              /\ invoked' = MapSet(invoked, a,
                                   IF a \in DOMAIN invoked THEN invoked[a] + 1 ELSE 1)
              /\ memory' = MapSet(memory, argHash, r)
              /\ result' = r
  /\ args' = a
  /\ called' = "memoized"
  /\ UNCHANGED <<arr, arr2, global, myObj, heap, func, locals>>

\* g = memo(func) has been built and not yet called
InitMemo ==
  /\ arr = <<>> /\ arr2 = <<>>
  /\ called = "none" /\ result = Undefined /\ args = <<>>
  /\ global = NoGlobals /\ myObj = Undefined /\ heap = <<>>
  /\ locals = Undefined
  /\ func \in Functions
  /\ memory = <<>>
  /\ invoked = <<>>

NextMemo == \E a \in ArgLists : Memoized(a)

SpecMemo == InitMemo /\ [][NextMemo]_vars

\* func has been invoked at most once for each JSON text of an argument list
InvokedOncePerHash ==
  \A a, b \in DOMAIN invoked :
    /\ invoked[a] = 1
    /\ stringify(a) = stringify(b) => a = b

\* an entry of the cache is never removed or replaced
CacheOnlyGrows ==
  [][\A h \in DOMAIN memory : h \in DOMAIN memory' /\ memory'[h] = memory[h]]_vars

\* the call that has just returned returned what func returns for its
\* arguments
ReturnsWhatFuncReturns ==
  called = "memoized" => result = CallFunc(func, args)

\* C28: for g = memo(f) with a deterministic f, over any sequence of calls, f
\* is invoked at most once per distinct JSON.stringify of the argument list,
\* the cache only grows, and every call g(...args) returns exactly what
\* f(...args) would return, also for two different argument lists that have
\* the same JSON text.
C28_MemoReturnsWhatFuncReturns ==
  /\ []InvokedOncePerHash
  /\ CacheOnlyGrows
  /\ []ReturnsWhatFuncReturns

(***************************************************************************)
(* shuffleArrayFisherYates and sample (src/sorting.js), one round of the   *)
(* while loop at a time.  A JavaScript array is a function from its keys   *)
(* to its items: the indices from 0, and any other integer key that has    *)
(* been assigned.  arr is the array being shuffled, args the call's        *)
(* arguments, locals the variables of shuffleArrayFisherYates.             *)
(***************************************************************************)
MaxItems == 3
MaxItem == 2
MaxNum == 3

\* the model's 2^53: a number n <= -Precision is its own n - 1, as the double
\* -2^53 is
Precision == 3

\* the array literal [items[1], ..., items[n]]
Array(items) == [i \in 0..(Len(items) - 1) |-> items[i + 1]]

\* arr.length
length(array) == Cardinality({i \in DOMAIN array : i >= 0})

\* arr[key]
At0(array, key) == IF key \in DOMAIN array THEN array[key] ELSE Undefined

\* [...arr]
Copy(array) == [i \in 0..(length(array) - 1) |-> At0(array, i)]

\* arr.slice(0, num)
slice(array, num) ==
  [i \in 0..((IF num < length(array) THEN num ELSE length(array)) - 1) |->
     At0(array, i)]

\* --n
Decrement(number) == IF number <= 0 - Precision THEN number ELSE number - 1

\* the values of Math.floor(Math.random() * n), Math.random() being in [0, 1)
RandomBelow(number) == IF number > 0 THEN 0..(number - 1) ELSE number..0

\* the body of the while loop: arr[n] and arr[k] change places
Swapped(array, i, k) ==
  MapSet(MapSet(array, i, At0(array, k)), k, At0(array, i))

ShuffledArrays == {Array(items) : items \in SeqsUpTo(1..MaxItem, MaxItems)}

ShuffleCalls == [arr : ShuffledArrays, num : 0..MaxNum]

\* shuffleArrayFisherYates(arr) is entered: let n = arr.length
CallShuffleArrayFisherYates ==
  /\ called = "none"
  /\ arr' = args.arr
  /\ locals' = [n |-> length(args.arr), k |-> Undefined]
  /\ called' = "shuffleArrayFisherYates running"
  /\ UNCHANGED <<arr2, args, result, global, myObj, heap, func, memory, invoked>>

\* sample(arr, num) is entered and calls shuffleArrayFisherYates([...arr])
CallSample ==
  /\ called = "none"
  /\ arr' = Copy(args.arr)
  /\ locals' = [n |-> length(args.arr), k |-> Undefined]
  /\ called' = "sample running"
  /\ UNCHANGED <<arr2, args, result, global, myObj, heap, func, memory, invoked>>

\* one test of while (--n): either a round of the loop, or the return of
\* arr, of which sample returns slice(0, num)
While ==
  /\ called \in {"shuffleArrayFisherYates running", "sample running"}
  /\ IF Decrement(locals.n) # 0
       THEN /\ \E k \in RandomBelow(Decrement(locals.n)) :
                 /\ locals' = [n |-> Decrement(locals.n), k |-> k]
                 /\ arr' = Swapped(arr, Decrement(locals.n), k)
            /\ UNCHANGED <<called, result>>
       ELSE /\ locals' = [n |-> 0, k |-> Undefined]
            /\ called' = IF called = "sample running"
                           THEN "sample" ELSE "shuffleArrayFisherYates"
            /\ result' = IF called = "sample running"
                           THEN slice(arr, args.num) ELSE arr
            /\ arr' = arr
  /\ UNCHANGED <<arr2, args, global, myObj, heap, func, memory, invoked>>

InitShuffle ==
  /\ arr = <<>> /\ arr2 = <<>>
  /\ called = "none" /\ result = Undefined
  /\ Untouched
  /\ args \in ShuffleCalls

NextShuffle == CallShuffleArrayFisherYates \/ CallSample \/ While

SpecShuffle == InitShuffle /\ [][NextShuffle]_vars

\* the loop keeps running: a test of while (--n) that can be made is made
FairShuffle == SpecShuffle /\ WF_vars(While)

\* the number of keys of the array that hold the item
Count(array, item) == Cardinality({i \in DOMAIN array : array[i] = item})

\* the same keys, and each item as often
Permutation(array, other) ==
  /\ DOMAIN array = DOMAIN other
  /\ \A i \in DOMAIN array : Count(array, array[i]) = Count(other, array[i])

\* C29: shuffleArrayFisherYates(arr) terminates for every array of length
\* n >= 0, the empty array included, and returns a permutation of the
\* elements it was given; hence sample(arr, num) terminates for every arr
\* and returns at most num elements of arr.
C29_ShuffleTerminates ==
  /\ (called = "shuffleArrayFisherYates running") ~>
       (called = "shuffleArrayFisherYates" /\ Permutation(result, args.arr))
  /\ (called = "sample running") ~>
       (/\ called = "sample"
        /\ length(result) <= args.num
        /\ \A i \in DOMAIN result :
             Count(result, result[i]) <= Count(args.arr, result[i]))

====
